---- MODULE Spec2Model ----
(***************************************************************************)
(* Synchronisation core of the stealth chat client (src/src/App.tsx and    *)
(* src/src/components/Editor.tsx): the message reconciler with its local   *)
(* hide-before watermark, seen receipts, the idle/panic controller and the *)
(* focus redirection over the file tree.                                   *)
(*                                                                         *)
(* Every action is one handler of the program together with the React      *)
(* effects that its state changes trigger (the effects run before the next *)
(* event is handled).  Remote writes are asynchronous: a handler only      *)
(* issues them, and a separate store action applies or rejects them.       *)
(***************************************************************************)
EXTENDS Integers, Sequences, FiniteSets, TLC

\* ------------------------------------------------------------------ bounds
\* messages ever sent (stored, pending or rejected)
MaxMsgs == 2
\* clock steps per poll interval: the granularity of time
TicksPerPoll == 2
\* how many clock steps the reconciler specification runs for
MaxTicks == 1
\* poll intervals the idle specification runs for beyond the idle timeout
IdlePolls == 1
\* ring events ever sent
MaxRings == 2
\* clock steps (of half the ring age limit) the ring specification runs for
RingSteps == 3
\* clock steps (of half the online-notice window) the presence specification
\* runs for
OnlineSteps == 3
\* clock steps (of half the typing debounce) the typing specification runs for
TypingSteps == 4
\* messages a room holds before the transcript specification starts
HistoryLen == 4
\* pieces of chat file content up to which the projection effect is followed
MaxContent == 16

\* ------------------------------------------------------- program constants
IDLE_MS == 5 * 60 * 1000
CHECK_MS == 30 * 1000

TickMs == CHECK_MS \div TicksPerPoll
MaxClock == MaxTicks * TickMs
\* a ring older than this is historical: ageMs > 5000
RING_MAX_AGE_MS == 5000
RingStepMs == RING_MAX_AGE_MS \div 2
\* an online notice is repeated only if now - lastLog > 2000
ONLINE_LOG_MS == 2000
OnlineStepMs == ONLINE_LOG_MS \div 2
\* the typing debounce of the chat input
TYPING_MS == 1200
TypingStepMs == TYPING_MS \div 2
\* the projector's separator distance and the calendar
MINUTE_MS == 60 * 1000
HOUR_MS == 60 * 60 * 1000
DAY_MS == 24 * HOUR_MS
IdleHorizon == IDLE_MS + IdlePolls * CHECK_MS

\* `null` of `Date | null`, `number | null`
NoTime == 0 - 1
\* Date.now() when the pages load: any time well past the Unix epoch
Epoch == IDLE_MS
\* `null` of `string | null` (file ids, room, user)
None == "none"

Clients == {"c1", "c2"}
\* the two users who chat; a third user name and a second room id, which a
\* login accepts like any other token
Chatters == {"alice", "bob"}
Users == Chatters \cup {"x_alice"}
Rooms == {"r1", "r1_x"}

\* one-character strings; a text is a sequence of them
SP == " "
Texts == {<<>>, <<SP>>, <<"h">>, <<SP, "h">>, <<SP, "h", SP>>}

Range(s) == {s[i] : i \in DOMAIN s}

Min(a, b) == IF a <= b THEN a ELSE b

\* ---------------------------------------------------------- pure helpers
\* String.prototype.trim
RECURSIVE TrimLeft(_)
TrimLeft(s) == IF s # <<>> /\ Head(s) = SP THEN TrimLeft(Tail(s)) ELSE s

RECURSIVE TrimRight(_)
TrimRight(s) ==
    IF s # <<>> /\ s[Len(s)] = SP THEN TrimRight(SubSeq(s, 1, Len(s) - 1)) ELSE s

Trim(s) == TrimRight(TrimLeft(s))

\* ------------------------------------------------------------- file tree
\* FileNode: [id, name, type, isChatFile, children]
File(id, name) ==
    [id |-> id, name |-> name, type |-> "file", isChatFile |-> FALSE, children |-> <<>>]

Folder(id, name, kids) ==
    [id |-> id, name |-> name, type |-> "folder", isChatFile |-> FALSE, children |-> kids]

ChatId == "chat"

CHAT_START == "// --- chat zone start ---"
CHAT_END == "// --- chat zone end ---"

\* a piece of the chat file's content: the code around the chat zone, a
\* marker text, the hint line, an empty line
Item(kind) == [kind |-> kind, id |-> 0, marker |-> "", text |-> <<>>]

\* the content ensureChatFile gives the new chat file
ChatTemplate ==
    <<Item("code"), Item("start"), Item("hint"), Item("blank"), Item("end"),
      Item("blank"), Item("code")>>

ChatFile ==
    [id |-> ChatId, name |-> "secret_job.dart", type |-> "file", isChatFile |-> TRUE,
     children |-> <<>>, content |-> ChatTemplate]

\* createInitialFiles, reduced to one file per folder
InitialFiles ==
    << Folder("root", "STEALTH-VSCODE-CHAT",
         << Folder("srcdir", "src", << File("main", "main.tsx") >>),
            Folder("libdir", "lib", << File("dart", "main.dart") >>),
            File("readme", "README.md") >>) >>

\* a traversal that does not skip the chat file
RECURSIVE findFirstFile(_)
findFirstFile(nodes) ==
    IF nodes = <<>> THEN None
    ELSE LET node == Head(nodes) IN
         IF node.type = "file" THEN node.id
         ELSE LET child == findFirstFile(node.children) IN
              IF child # None THEN child ELSE findFirstFile(Tail(nodes))

RECURSIVE findFirstSafeFile(_)
findFirstSafeFile(nodes) ==
    IF nodes = <<>> THEN None
    ELSE LET node == Head(nodes) IN
         IF node.type = "file" /\ ~node.isChatFile THEN node.id
         ELSE LET child == findFirstSafeFile(node.children) IN
              IF child # None THEN child ELSE findFirstSafeFile(Tail(nodes))

\* all node ids of a forest, in pre-order
RECURSIVE NodeIds(_)
NodeIds(nodes) ==
    IF nodes = <<>> THEN <<>>
    ELSE <<Head(nodes).id>> \o NodeIds(Head(nodes).children) \o NodeIds(Tail(nodes))

RECURSIVE FileIds(_)
FileIds(nodes) ==
    IF nodes = <<>> THEN <<>>
    ELSE (IF Head(nodes).type = "file" THEN <<Head(nodes).id>> ELSE <<>>)
         \o FileIds(Head(nodes).children) \o FileIds(Tail(nodes))

\* does the forest hold a folder named src or lib (pre-order)
RECURSIVE HasChatFolder(_)
HasChatFolder(nodes) ==
    IF nodes = <<>> THEN FALSE
    ELSE LET node == Head(nodes) IN
         \/ (node.type = "folder" /\ node.name \in {"src", "lib"})
         \/ HasChatFolder(node.children)
         \/ HasChatFolder(Tail(nodes))

\* insertIntoTree of ensureChatFile: `done` is the `inserted` flag when the
\* map reaches this list; the chat file goes into the first src/lib folder
RECURSIVE insertIntoTree(_, _)
insertIntoTree(nodes, done) ==
    IF nodes = <<>> THEN <<>>
    ELSE LET node == Head(nodes)
             hit == node.type = "folder" /\ node.name \in {"src", "lib"} /\ ~done
             sub == HasChatFolder(node.children)
             first == IF hit
                      THEN [node EXCEPT !.children = Append(node.children, ChatFile)]
                      ELSE [node EXCEPT !.children = insertIntoTree(node.children, done)]
         IN <<first>> \o insertIntoTree(Tail(nodes), done \/ hit \/ sub)

ensureChatFileTree(nodes) ==
    IF HasChatFolder(nodes) THEN insertIntoTree(nodes, FALSE)
    ELSE Append(nodes, ChatFile)

\* Explorer.deleteNode
RECURSIVE deleteNode(_, _)
deleteNode(nodes, id) ==
    IF nodes = <<>> THEN <<>>
    ELSE LET node == Head(nodes) IN
         IF node.id = id THEN deleteNode(Tail(nodes), id)
         ELSE <<[node EXCEPT !.children = deleteNode(node.children, id)]>>
              \o deleteNode(Tail(nodes), id)

\* ------------------------------------------------------------------ state
VARIABLES
    clock,       \* Date.now() and the store's server time, in ms
    msgs,        \* rooms/<room>/messages: every add ever issued, id = index
    seenWrites,  \* seen-receipt updateDoc calls in flight
    presence,    \* rooms/<room>/presence/<user>
    presWrites,  \* presence setDoc calls in flight
    client,      \* per browser: React state, refs, subscriptions, localStorage
    last,        \* the handler that ran last and what it emitted
    rings,       \* rooms/<room>/rings: every add ever issued, id = index
    ringDeletes  \* deleteDoc calls on ring documents in flight

vars == <<clock, msgs, seenWrites, presence, presWrites, client, last, rings,
          ringDeletes>>

Identities == Rooms \X Users

\* the localStorage key of the watermark of an identity
hideBeforeKey(roomId, userName) ==
    "stealth_hideBefore_" \o roomId \o "_" \o userName

HideBeforeKeys == {hideBeforeKey(i[1], i[2]) : i \in Identities}

NoSeenAt == [u \in Users |-> NoTime]

LoggedOut == [loggedIn |-> FALSE, roomId |-> None, userName |-> None]

NoSub == [live |-> FALSE, roomId |-> None, userName |-> None, id |-> 0]

NoMsgSub ==
    [live |-> FALSE, roomId |-> None, userName |-> None, id |-> 0,
     firstSnapshot |-> FALSE,
     deliveries |-> 0]

NoPresence == [status |-> "none", typing |-> FALSE]

\* typingTimeoutRef without a pending timer; a pending timer runs the
\* onTypingStop of the render that set it, which reads that render's login and
\* isTypingLocal
NoTimer == [due |-> NoTime, login |-> LoggedOut, isTypingLocal |-> FALSE]

\* useState/useRef initial values of App (lines 352-428) and an empty
\* localStorage
InitClient ==
    [login |-> LoggedOut,
     panic |-> FALSE,
     chatFileId |-> None,
     activeFileId |-> None,
     files |-> InitialFiles,
     openTabs |-> <<>>,
     messages |-> <<>>,
     unsubscribeMessages |-> NoMsgSub,
     unsubscribePresence |-> NoSub,
     unsubscribeRings |-> NoSub,
     listeners |-> {},
     ringsDelivered |-> {},
     ringNoticed |-> {},
     presenceMap |-> [u \in Users |-> NoPresence],
     isTypingLocal |-> FALSE,
     typingTimeout |-> NoTimer,
     tabVisible |-> TRUE,
     onlineLog |-> [u \in Users |-> NoTime],
     onlineShown |-> [u \in Users |-> NoTime],
     lastActivity |-> Epoch,
     lastHidden |-> NoTime,
     nextPoll |-> Epoch + CHECK_MS,
     logoutStep |-> "idle",
     hideBefore |-> [k \in HideBeforeKeys |-> NoTime],
     identity |-> [roomId |-> None, userName |-> None]]

NoOp ==
    [op |-> "init", client |-> None, lines |-> <<>>, seen |-> {}, unread |-> NoTime,
     arg |-> <<>>, id |-> 0]

Init ==
    /\ clock = Epoch
    /\ msgs = <<>>
    /\ seenWrites = {}
    /\ presence = [i \in Identities |-> NoPresence]
    /\ presWrites = {}
    /\ client = [c \in Clients |-> InitClient]
    /\ last = NoOp
    /\ rings = <<>>
    /\ ringDeletes = {}

\* --------------------------------------------------------- terminal lines
\* appendTerminalLine: the model keeps the lines the last handler appended
EchoLine(cmd) == "> " \o cmd

\* the terminal lines of the presence notices
OnlineLine(name) == "user " \o name \o " online"
AwayLine(name) == "user " \o name \o " away"
OfflineLine(name) == "user " \o name \o " offline"

\* ------------------------------------------------------------- reconciler
\* the store's documents of a room, and the adds of client c not yet
\* acknowledged (the local cache shows them with createdAt = null)
StoredIds(room) ==
    {i \in DOMAIN msgs : msgs[i].st = "stored" /\ msgs[i].room = room}

PendingIds(room, c) ==
    {i \in DOMAIN msgs :
        msgs[i].st = "pending" /\ msgs[i].room = room /\ msgs[i].origin = c}

\* orderBy("createdAt", "asc"); equal times in document order
CreatedBefore(i, j) ==
    \/ msgs[i].createdAt < msgs[j].createdAt
    \/ (msgs[i].createdAt = msgs[j].createdAt /\ i < j)

RECURSIVE SortByCreatedAt(_)
SortByCreatedAt(S) ==
    IF S = {} THEN <<>>
    ELSE LET m == CHOOSE i \in S : \A j \in S \ {i} : CreatedBefore(i, j)
         IN <<m>> \o SortByCreatedAt(S \ {m})

RECURSIVE SortById(_)
SortById(S) ==
    IF S = {} THEN <<>>
    ELSE LET m == CHOOSE i \in S : \A j \in S : i <= j
         IN <<m>> \o SortById(S \ {m})

\* snapshot.docs as delivered to client c for a room
SnapshotIds(room, c) ==
    SortByCreatedAt(StoredIds(room)) \o SortById(PendingIds(room, c))

\* docs.push({...}) of onSnapshot
toChatMessage(i) ==
    [id |-> i,
     sender |-> msgs[i].sender,
     content |-> msgs[i].content,
     createdAt |-> msgs[i].createdAt,
     seenBy |-> msgs[i].seenBy,
     seenAt |-> msgs[i].seenAt]

\* a watermark test that keeps a document created at the watermark
KeepInSnapshotStrict(createdAt, hideBeforeTime) ==
    ~(hideBeforeTime # NoTime /\ createdAt # NoTime /\ createdAt < hideBeforeTime)

\* the watermark test of onSnapshot: TRUE when the document is kept
KeepInSnapshot(createdAt, hideBeforeTime) ==
    ~(hideBeforeTime # NoTime /\ createdAt # NoTime /\ createdAt <= hideBeforeTime)

\* the filter of clear_local: TRUE when the cached message is kept
KeepOnClear(createdAt, nowMs) ==
    createdAt = NoTime \/ createdAt >= nowMs

RECURSIVE FilterDocs(_, _)
FilterDocs(ids, hideBeforeTime) ==
    IF ids = <<>> THEN <<>>
    ELSE (IF KeepInSnapshot(msgs[Head(ids)].createdAt, hideBeforeTime)
          THEN <<toChatMessage(Head(ids))>> ELSE <<>>)
         \o FilterDocs(Tail(ids), hideBeforeTime)

RECURSIVE FilterOnClear(_, _)
FilterOnClear(list, nowMs) ==
    IF list = <<>> THEN <<>>
    ELSE (IF KeepOnClear(Head(list).createdAt, nowMs) THEN <<Head(list)>> ELSE <<>>)
         \o FilterOnClear(Tail(list), nowMs)

\* messages with sender # user and user not in seenBy
Unseen(list, userName) ==
    {i \in DOMAIN list :
        list[i].sender # userName /\ userName \notin Range(list[i].seenBy)}

\* a plain push instead of a set union
arrayPush(arr, x) == Append(arr, x)

\* firestore arrayUnion
arrayUnion(arr, x) == IF x \in Range(arr) THEN arr ELSE Append(arr, x)

\* ------------------------------------------------------------- projector
\* m.content.replace(/"/g, '\\"')
QUOTE == "\""

RECURSIVE EscapeQuotes(_)
EscapeQuotes(content) ==
    IF content = <<>> THEN <<>>
    ELSE (IF Head(content) = QUOTE THEN <<"\\", QUOTE>> ELSE <<Head(content)>>)
         \o EscapeQuotes(Tail(content))

\* a separator label that gives the age of the message
formatTimeSeparatorAge(d, now) ==
    [date |-> NoTime, minute |-> (now - d) \div MINUTE_MS]

\* formatTimeSeparator: "h:mm AM/PM" for a date of the evaluation day,
\* "D Mon - h:mm AM/PM" otherwise (the year is not printed); days are
\* counted from the model's time origin
formatTimeSeparator(d, now) ==
    LET isToday == d \div DAY_MS = now \div DAY_MS IN
    [date |-> IF isToday THEN NoTime ELSE (d \div DAY_MS) % 365,
     minute |-> (d % DAY_MS) \div MINUTE_MS]

\* a marker that counts the author's own entry in seenBy
buildMarkerOwnCounts(m, currentUser) ==
    IF currentUser = None THEN "#"
    ELSE IF m.sender = currentUser
    THEN (IF m.seenBy # <<>> THEN "##" ELSE "#")
    ELSE (IF currentUser \in Range(m.seenBy) THEN "##" ELSE "#")

\* buildMarker
buildMarker(m, currentUser) ==
    IF currentUser = None THEN "#"
    ELSE IF m.sender = currentUser
    THEN (IF \E u \in Range(m.seenBy) : u # currentUser THEN "##" ELSE "#")
    ELSE (IF currentUser \in Range(m.seenBy) THEN "##" ELSE "#")

SeparatorLine(m, now) ==
    [kind |-> "ts", id |-> m.id, marker |-> "",
     text |-> <<formatTimeSeparator(m.createdAt, now)>>]

MessageLine(m, currentUser) ==
    [kind |-> "msg", id |-> m.id, marker |-> buildMarker(m, currentUser),
     text |-> <<m.sender>> \o EscapeQuotes(m.content)]

\* a loop that skips a message that has no createdAt yet
RECURSIVE renderedLinesDated(_, _, _, _)
renderedLinesDated(chatMessages, currentUser, lastTime, now) ==
    IF chatMessages = <<>> THEN <<>>
    ELSE LET m == Head(chatMessages)
             sep == /\ m.createdAt # NoTime
                    /\ (lastTime = NoTime \/ m.createdAt - lastTime >= HOUR_MS)
         IN (IF sep THEN <<SeparatorLine(m, now)>> ELSE <<>>)
            \o (IF m.createdAt # NoTime THEN <<MessageLine(m, currentUser)>> ELSE <<>>)
            \o renderedLinesDated(Tail(chatMessages), currentUser,
                                  IF sep THEN m.createdAt ELSE lastTime, now)

\* a loop that puts a separator only more than an hour after the anchor
RECURSIVE renderedLinesStrict(_, _, _, _)
renderedLinesStrict(chatMessages, currentUser, lastTime, now) ==
    IF chatMessages = <<>> THEN <<>>
    ELSE LET m == Head(chatMessages)
             sep == /\ m.createdAt # NoTime
                    /\ (lastTime = NoTime \/ m.createdAt - lastTime > HOUR_MS)
         IN (IF sep THEN <<SeparatorLine(m, now)>> ELSE <<>>)
            \o <<MessageLine(m, currentUser)>>
            \o renderedLinesStrict(Tail(chatMessages), currentUser,
                                   IF sep THEN m.createdAt ELSE lastTime, now)

\* the chatMessages.forEach loop: lastTime is the createdAt of the last
\* message that got a separator
RECURSIVE renderedLines(_, _, _, _)
renderedLines(chatMessages, currentUser, lastTime, now) ==
    IF chatMessages = <<>> THEN <<>>
    ELSE LET m == Head(chatMessages)
             sep == /\ m.createdAt # NoTime
                    /\ (lastTime = NoTime \/ m.createdAt - lastTime >= HOUR_MS)
         IN (IF sep THEN <<SeparatorLine(m, now)>> ELSE <<>>)
            \o <<MessageLine(m, currentUser)>>
            \o renderedLines(Tail(chatMessages), currentUser,
                             IF sep THEN m.createdAt ELSE lastTime, now)

\* formatTime: null for no date, else the label of the date
formatTime(d, now) ==
    IF d = NoTime THEN <<>> ELSE <<formatTimeSeparator(d, now)>>

\* buildHoverText: the `message sent on` and `message read on` parts, each
\* empty or one label
buildHoverText(m, currentUser, now) ==
    LET others == {m.seenAt[u] : u \in {v \in Users : v # currentUser}} \ {NoTime}
        latest == IF others = {} THEN NoTime
                  ELSE CHOOSE t \in others : \A o \in others : o <= t
    IN
    [sent |-> formatTime(m.createdAt, now),
     read |-> IF currentUser = None THEN <<>>
              ELSE IF m.sender = currentUser THEN formatTime(latest, now)
              ELSE formatTime(m.seenAt[currentUser], now)]

\* the chatLines of the projection effect of App
chatLines(messages, currentUser, now) ==
    renderedLines(messages, currentUser, NoTime, now)

\* a transcript line as pieces of content: a marker text inside a message is
\* a marker text of the content
RECURSIVE Pieces(_)
Pieces(line) ==
    LET at == IF line.kind = "ts" THEN {}
              ELSE {p \in DOMAIN line.text : line.text[p] \in {CHAT_START, CHAT_END}}
    IN IF at = {} THEN <<line>>
       ELSE LET p == CHOOSE q \in at : \A r \in at : q <= r IN
            <<[line EXCEPT !.text = SubSeq(line.text, 1, p - 1)],
              Item(IF line.text[p] = CHAT_START THEN "start" ELSE "end")>>
            \o Pieces([kind |-> "rest", id |-> line.id, marker |-> "",
                       text |-> SubSeq(line.text, p + 1, Len(line.text))])

RECURSIVE ContentOf(_)
ContentOf(lines) ==
    IF lines = <<>> THEN <<>> ELSE Pieces(Head(lines)) \o ContentOf(Tail(lines))

\* content.indexOf(marker); 0 stands for -1
IndexOf(content, kind) ==
    LET at == {i \in DOMAIN content : content[i].kind = kind}
    IN IF at = {} THEN 0 ELSE CHOOSE i \in at : \A j \in at : i <= j

\* the new content of the chat file: before + middleLines + after
writeChatLines(content, lines) ==
    LET startIdx == IndexOf(content, "start")
        endIdx == IndexOf(content, "end")
    IN IF startIdx = 0 \/ endIdx = 0 THEN content
       ELSE SubSeq(content, 1, startIdx)
            \o <<Item("hint"), Item("blank")>> \o ContentOf(lines) \o <<Item("blank")>>
            \o SubSeq(content, endIdx, Len(content))

\* files.map(updateNode) of the projection effect
RECURSIVE updateNode(_, _, _)
updateNode(nodes, chatFileId, lines) ==
    IF nodes = <<>> THEN <<>>
    ELSE LET node == Head(nodes) IN
         <<IF node.id = chatFileId
           THEN [node EXCEPT !.content = writeChatLines(@, lines)]
           ELSE [node EXCEPT !.children = updateNode(@, chatFileId, lines)]>>
         \o updateNode(Tail(nodes), chatFileId, lines)

\* the content of the chat file of a forest; empty when it has none
RECURSIVE chatContent(_)
chatContent(nodes) ==
    IF nodes = <<>> THEN <<>>
    ELSE LET node == Head(nodes) IN
         IF node.isChatFile THEN node.content
         ELSE chatContent(node.children) \o chatContent(Tail(nodes))

\* one run of the projection effect on page state cl
Project(cl) ==
    IF cl.chatFileId = None THEN cl
    ELSE [cl EXCEPT !.files =
             updateNode(@, cl.chatFileId,
                        chatLines(cl.messages, cl.login.userName, clock))]

\* the effect runs when messages, chatFileId, login.userName or files changed
ProjectionDeps(old, new, touched) ==
    \/ touched
    \/ old.messages # new.messages
    \/ old.chatFileId # new.chatFileId
    \/ old.login.userName # new.login.userName
    \/ old.files # new.files

Projection(old, new, touched) ==
    IF ProjectionDeps(old, new, touched) THEN Project(new) ELSE new

\* the transcript of page state cl evaluated at time now
Transcript(cl, now) == renderedLines(cl.messages, cl.login.userName, NoTime, now)

\* ---------------------------------------------------------------- effects
\* the guard without its tabVisible test
MarkSeenGuardHidden(cl) ==
    /\ cl.login.loggedIn
    /\ cl.chatFileId # None
    /\ ~cl.panic
    /\ cl.activeFileId = cl.chatFileId

\* guard of the mark-seen effect
MarkSeenGuard(cl) ==
    /\ cl.login.loggedIn
    /\ cl.chatFileId # None
    /\ ~cl.panic
    /\ cl.tabVisible
    /\ cl.activeFileId = cl.chatFileId

\* the effect runs when one of its dependencies changed; setMessages always
\* installs a new array (touched)
MarkSeenDeps(old, new, touched) ==
    \/ touched
    \/ old.login # new.login
    \/ old.chatFileId # new.chatFileId
    \/ old.panic # new.panic
    \/ old.tabVisible # new.tabVisible
    \/ old.activeFileId # new.activeFileId

SeenWrite(id, roomId, userName) == [id |-> id, room |-> roomId, user |-> userName]

\* the updateDoc calls issued by the mark-seen effect
MarkSeenWrites(old, new, touched) ==
    IF MarkSeenDeps(old, new, touched) /\ MarkSeenGuard(new)
    THEN {SeenWrite(new.messages[i].id, new.login.roomId, new.login.userName) :
             i \in Unseen(new.messages, new.login.userName)}
    ELSE {}

\* the idle interval is re-created when login.loggedIn changes
ResetPoll(old, new) ==
    IF old.login.loggedIn # new.login.loggedIn
    THEN [new EXCEPT !.nextPoll = clock + CHECK_MS] ELSE new

\* a page without the effect that closes the chat file under panic
PanicKeepsActive(cl) == cl

\* effect: panic && activeFileId === chatFileId -> setActiveFileId(null)
PanicClearsActive(cl) ==
    IF cl.panic /\ cl.activeFileId = cl.chatFileId
    THEN [cl EXCEPT !.activeFileId = None] ELSE cl

Effects(old, new) == PanicClearsActive(ResetPoll(old, new))

\* the window mousemove/keydown/click/scroll listener
markActivity(cl) == [cl EXCEPT !.lastActivity = clock]

Op(op, c, lines, seen, unread, arg, id) ==
    [op |-> op, client |-> c, lines |-> lines, seen |-> seen, unread |-> unread,
     arg |-> arg, id |-> id]

\* the terminal of a page: when its latest `user <name> online` line was
\* appended
Terminal(cl, lines) ==
    [cl EXCEPT !.onlineShown =
        [u \in Users |-> IF OnlineLine(u) \in Range(lines) THEN clock ELSE @[u]]]

\* a handler of client c ends in state `new`; its effects run
Handler(c, new, touched, op, lines, unread, arg, id) ==
    LET issue == MarkSeenWrites(client[c], new, touched) IN
    /\ client' = [client EXCEPT ![c] =
                      Terminal(Projection(client[c], Effects(client[c], new), touched),
                               lines)]
    /\ seenWrites' = seenWrites \cup issue
    /\ last' = Op(op, c, lines, issue, unread, arg, id)
    /\ UNCHANGED <<rings, ringDeletes>>

\* the projection effect runs again on the files it has written, as long as
\* its run changes the content
ProjectionRerun(c) ==
    LET cl == client[c]
        new == Project(cl)
    IN
    /\ new.files # cl.files
    /\ client' = [client EXCEPT ![c] = new]
    /\ last' = Op("projection", c, <<>>, {}, NoTime, <<>>, 0)
    /\ UNCHANGED <<clock, msgs, seenWrites, presence, presWrites, rings, ringDeletes>>

\* --------------------------------------------------------------- presence
\* setPresenceStatus: setDoc merge {userName, status, online, typing: false}
StatusWrite(c, roomId, userName, status, awaited) ==
    [room |-> roomId, user |-> userName, kind |-> "status", status |-> status,
     typing |-> FALSE, by |-> c, awaited |-> awaited]

\* setTypingStatus: setDoc merge {userName, typing}
TypingWrite(c, roomId, userName, typing, awaited) ==
    [room |-> roomId, user |-> userName, kind |-> "typing", status |-> "none",
     typing |-> typing, by |-> c, awaited |-> awaited]

\* ------------------------------------------------------ session commands
\* ensureChatFile
ensureChatFile(cl) ==
    IF cl.chatFileId # None THEN cl
    ELSE [cl EXCEPT !.files = ensureChatFileTree(cl.files), !.chatFileId = ChatId]

\* the onSnapshot listeners of a page that the store still serves
Listener(kind, id, roomId, userName) ==
    [kind |-> kind, id |-> id, roomId |-> roomId, userName |-> userName]

OfKind(L, kind) == {l \in L : l.kind = kind}

\* a subscribe that leaves the previous listener attached
DetachNothing(L, kind, id) == L

\* unsubscribeMessages() / unsubscribePresence() / unsubscribeRings(): the
\* listener the stored function belongs to is removed; calling it again, or
\* with nothing stored, changes nothing
Detach(L, kind, id) == {l \in L : ~(l.kind = kind /\ l.id = id)}

\* the identity of the listener a new onSnapshot call creates
FreshId(L, kind) ==
    CHOOSE n \in 1..(Cardinality(OfKind(L, kind)) + 1) :
        \A l \in OfKind(L, kind) : l.id # n

\* `if (unsubscribeX) unsubscribeX(); ... onSnapshot(...)` for one kind
Attach(L, kind, prev, roomId, userName) ==
    LET kept == Detach(L, kind, prev.id) IN
    kept \cup {Listener(kind, FreshId(kept, kind), roomId, userName)}

AttachedId(L, kind, prev) == FreshId(Detach(L, kind, prev.id), kind)

AttachAll(cl, roomId, userName) ==
    Attach(Attach(Attach(cl.listeners,
                         "messages", cl.unsubscribeMessages, roomId, userName),
                  "presence", cl.unsubscribePresence, roomId, userName),
           "rings", cl.unsubscribeRings, roomId, userName)

\* a first-snapshot flag shared by the page's subscriptions instead of one per
\* subscription: only the page's first subscription starts with it set
SubscribeSharedFlag(cl, roomId, userName) ==
    [cl EXCEPT
        !.unsubscribeMessages =
            [live |-> TRUE, roomId |-> roomId, userName |-> userName,
             id |-> AttachedId(cl.listeners, "messages", @),
             firstSnapshot |-> IF @.roomId = None THEN TRUE ELSE @.firstSnapshot,
             deliveries |-> 0],
        !.unsubscribePresence =
            [live |-> TRUE, roomId |-> roomId, userName |-> userName,
             id |-> AttachedId(cl.listeners, "presence", @)],
        !.unsubscribeRings =
            [live |-> TRUE, roomId |-> roomId, userName |-> userName,
             id |-> AttachedId(cl.listeners, "rings", @)],
        !.listeners = AttachAll(cl, roomId, userName),
        !.ringsDelivered = {}]

\* subscribeToMessages, subscribeToPresence, subscribeToRings: the previous
\* subscription of the kind is closed and a new one opened
Subscribe(cl, roomId, userName) ==
    [cl EXCEPT
        !.unsubscribeMessages =
            [live |-> TRUE, roomId |-> roomId, userName |-> userName,
             id |-> AttachedId(cl.listeners, "messages", @),
             firstSnapshot |-> TRUE, deliveries |-> 0],
        !.unsubscribePresence =
            [live |-> TRUE, roomId |-> roomId, userName |-> userName,
             id |-> AttachedId(cl.listeners, "presence", @)],
        !.unsubscribeRings =
            [live |-> TRUE, roomId |-> roomId, userName |-> userName,
             id |-> AttachedId(cl.listeners, "rings", @)],
        !.listeners = AttachAll(cl, roomId, userName),
        !.ringsDelivered = {}]

\* a login that replaces an open session instead of refusing
LoginSwitches(c, roomId, userName) ==
    LET cl == client[c] IN
    /\ msgs' = msgs /\ presence' = presence /\ clock' = clock
    /\ IF roomId = None
       THEN /\ Handler(c, cl, FALSE, "login",
                       <<EchoLine("login"), "usage: login <room_id> [user_name]">>,
                       NoTime, <<roomId>>, 0)
            /\ presWrites' = presWrites
       ELSE LET in == [cl EXCEPT
                          !.login = [loggedIn |-> TRUE, roomId |-> roomId,
                                     userName |-> userName],
                          !.identity = [roomId |-> roomId, userName |-> userName]]
                new == Subscribe(ensureChatFile(in), roomId, userName)
            IN /\ Handler(c, new, FALSE, "login",
                          <<EchoLine("login"), "logged into room">>, NoTime,
                          <<roomId>>, 0)
               /\ presWrites' = presWrites \cup
                      {StatusWrite(c, roomId, userName, "online", FALSE)}

\* handleCommand("login <room> <user>"); roomId = None is a missing argument
Login(c, roomId, userName) ==
    LET cl == client[c] IN
    /\ msgs' = msgs /\ presence' = presence /\ clock' = clock
    /\ IF cl.login.loggedIn
       THEN /\ Handler(c, cl, FALSE, "login",
                       <<EchoLine("login"), "already logged in; use logout first">>,
                       NoTime, <<roomId>>, 0)
            /\ presWrites' = presWrites
       ELSE IF roomId = None
       THEN /\ Handler(c, cl, FALSE, "login",
                       <<EchoLine("login"), "usage: login <room_id> [user_name]">>,
                       NoTime, <<roomId>>, 0)
            /\ presWrites' = presWrites
       ELSE LET in == [cl EXCEPT
                          !.login = [loggedIn |-> TRUE, roomId |-> roomId,
                                     userName |-> userName],
                          !.identity = [roomId |-> roomId, userName |-> userName]]
                new == Subscribe(ensureChatFile(in), roomId, userName)
            IN /\ Handler(c, new, FALSE, "login",
                          <<EchoLine("login"), "logged into room">>, NoTime, <<roomId>>, 0)
               /\ presWrites' = presWrites \cup
                      {StatusWrite(c, roomId, userName, "online", FALSE)}

\* a logout that also removes the watermark of the session's identity
LogoutLocalForgets(cl) ==
    [cl EXCEPT
        !.login = LoggedOut,
        !.panic = TRUE,
        !.unsubscribeMessages.live = FALSE,
        !.unsubscribePresence.live = FALSE,
        !.listeners = Detach(Detach(@, "messages", cl.unsubscribeMessages.id),
                             "presence", cl.unsubscribePresence.id),
        !.hideBefore = IF cl.login.loggedIn
                       THEN [@ EXCEPT ![hideBeforeKey(cl.login.roomId,
                                                      cl.login.userName)] = NoTime]
                       ELSE @,
        !.identity = [roomId |-> None, userName |-> None],
        !.logoutStep = "idle"]

\* the tail of handleCommand("logout"), after both awaits
LogoutLocal(cl) ==
    [cl EXCEPT
        !.login = LoggedOut,
        !.panic = TRUE,
        !.unsubscribeMessages.live = FALSE,
        !.unsubscribePresence.live = FALSE,
        !.listeners = Detach(Detach(@, "messages", cl.unsubscribeMessages.id),
                             "presence", cl.unsubscribePresence.id),
        !.identity = [roomId |-> None, userName |-> None],
        !.logoutStep = "idle"]

\* handleCommand("logout") up to its first await
Logout(c) ==
    LET cl == client[c] IN
    /\ cl.logoutStep = "idle"
    /\ msgs' = msgs /\ presence' = presence /\ clock' = clock
    /\ IF cl.login.loggedIn
       THEN /\ Handler(c, [cl EXCEPT !.logoutStep = "typing"], FALSE, "logout",
                       <<EchoLine("logout")>>, NoTime, <<>>, 0)
            /\ presWrites' = presWrites \cup
                   {TypingWrite(c, cl.login.roomId, cl.login.userName, FALSE, TRUE)}
       ELSE /\ Handler(c, LogoutLocal(cl), FALSE, "logout",
                       <<EchoLine("logout"), "logged out. chat file hidden">>,
                       NoTime, <<>>, 0)
            /\ presWrites' = presWrites

\* the store's merge of a presence write
MergePresence(doc, w) ==
    IF w.kind = "status"
    THEN [status |-> w.status, typing |-> FALSE]
    ELSE [status |-> IF doc.status = "none" THEN "unset" ELSE doc.status,
          typing |-> w.typing]

\* a logout that gives up when one of its writes is rejected
logoutAwaitStrict(step, kind, ok) ==
    IF ~ok THEN "idle"
    ELSE IF step = "typing" /\ kind = "typing" THEN "typing"
    ELSE IF step = "offline" /\ kind = "status" THEN "offline"
    ELSE "idle"

\* which await of handleCommand("logout") a settling write ends; a rejection
\* is swallowed by .catch(() => undefined)
logoutAwait(step, kind, ok) ==
    IF step = "typing" /\ kind = "typing" THEN "typing"
    ELSE IF step = "offline" /\ kind = "status" THEN "offline"
    ELSE "idle"

\* a presence write settles: applied (ok) or rejected; a logout awaiting it
\* continues with its next step
PresenceWriteSettle(w, ok) ==
    LET c == w.by
        cl == client[c]
        rest == presWrites \ {w}
        step == logoutAwait(IF w.awaited THEN cl.logoutStep ELSE "idle",
                            w.kind, ok)
    IN
    /\ w \in presWrites
    /\ msgs' = msgs /\ clock' = clock
    /\ presence' = IF ok
                   THEN [presence EXCEPT ![<<w.room, w.user>>] = MergePresence(@, w)]
                   ELSE presence
    /\ IF step = "typing"
       THEN /\ presWrites' = rest \cup
                   {StatusWrite(c, w.room, w.user, "offline", TRUE)}
            /\ Handler(c, [cl EXCEPT !.logoutStep = "offline"], FALSE,
                       "presence_settle", <<>>, NoTime, <<ok>>, 0)
       ELSE IF step = "offline"
       THEN /\ presWrites' = rest
            /\ Handler(c, LogoutLocal(cl), FALSE, "logout_done",
                       <<"logged out. chat file hidden">>, NoTime, <<ok>>, 0)
       ELSE /\ presWrites' = rest
            /\ client' = client /\ seenWrites' = seenWrites
            /\ last' = Op("presence_settle", c, <<>>, {}, NoTime, <<ok>>, 0)
            /\ UNCHANGED <<rings, ringDeletes>>

\* ------------------------------------------------------------------- send
\* the document handed to addDoc by sendMessage; both serverTimestamp()
\* fields are null in the local cache until the store acknowledges
NewMessage(c, roomId, userName, trimmed) ==
    [room |-> roomId, origin |-> c, st |-> "pending", sender |-> userName,
     content |-> trimmed, createdAt |-> NoTime, seenBy |-> <<userName>>,
     seenAt |-> NoSeenAt]

\* a send that drops a message equal to one the room already holds
handleSendChatOnce(c, cl, text, op, echo, typingStop) ==
    /\ presence' = presence /\ clock' = clock
    /\ presWrites' = presWrites \cup typingStop
    /\ IF ~cl.login.loggedIn
       THEN /\ msgs' = msgs
            /\ Handler(c, cl, FALSE, op,
                       echo \o <<"error: not logged in", "message sent">>,
                       NoTime, text, 0)
       ELSE IF Trim(text) = <<>>
       THEN /\ msgs' = msgs
            /\ Handler(c, cl, FALSE, op, echo \o <<"message sent">>, NoTime, text, 0)
       ELSE IF \E i \in DOMAIN msgs :
                   /\ msgs[i].room = cl.login.roomId
                   /\ msgs[i].sender = cl.login.userName
                   /\ msgs[i].content = Trim(text)
       THEN /\ msgs' = msgs
            /\ Handler(c, cl, FALSE, op, echo, NoTime, text, 0)
       ELSE /\ Len(msgs) < MaxMsgs
            /\ msgs' = Append(msgs, NewMessage(c, cl.login.roomId,
                                               cl.login.userName, Trim(text)))
            /\ Handler(c, cl, FALSE, op, echo, NoTime, text, Len(msgs) + 1)

\* handleSendChat -> sendMessage, up to the await of addDoc.  A call that
\* returns from sendMessage without addDoc resolves at once and
\* handleSendChat appends its success line.
handleSendChat(c, cl, text, op, echo, typingStop) ==
    /\ presence' = presence /\ clock' = clock
    /\ presWrites' = presWrites \cup typingStop
    /\ IF ~cl.login.loggedIn
       THEN /\ msgs' = msgs
            /\ Handler(c, cl, FALSE, op,
                       echo \o <<"error: not logged in", "message sent">>,
                       NoTime, text, 0)
       ELSE IF Trim(text) = <<>>
       THEN /\ msgs' = msgs
            /\ Handler(c, cl, FALSE, op, echo \o <<"message sent">>, NoTime, text, 0)
       ELSE /\ Len(msgs) < MaxMsgs
            /\ msgs' = Append(msgs, NewMessage(c, cl.login.roomId,
                                               cl.login.userName, Trim(text)))
            /\ Handler(c, cl, FALSE, op, echo, NoTime, text, Len(msgs) + 1)

\* handleCommand("send <message>"): text is rest.join(" ") of the trimmed
\* input, so it is empty or ends in a non-blank
CmdSend(c, text) ==
    LET cl == client[c] IN
    /\ IF text = <<>> THEN TRUE ELSE text[Len(text)] # SP
    /\ IF text = <<>>
       THEN /\ msgs' = msgs /\ presence' = presence /\ clock' = clock
            /\ presWrites' = presWrites
            /\ Handler(c, cl, FALSE, "send",
                       <<EchoLine("send"), "usage: send <your message>">>,
                       NoTime, text, 0)
       ELSE handleSendChat(c, cl, text, "send", <<EchoLine("send")>>, {})

\* is the chat file the file the Editor renders
RECURSIVE HasNode(_, _)
HasNode(nodes, id) ==
    IF nodes = <<>> THEN FALSE
    ELSE \/ Head(nodes).id = id
         \/ HasNode(Head(nodes).children, id)
         \/ HasNode(Tail(nodes), id)

ChatShown(cl) ==
    /\ cl.chatFileId # None
    /\ cl.activeFileId = cl.chatFileId
    /\ HasNode(cl.files, cl.chatFileId)

\* Editor.handleChatKeyDown (Enter) with chatInput = text and no reply target
EditorSend(c, text) ==
    LET cl == client[c]
        stop == cl.login.loggedIn /\ cl.isTypingLocal
        stopped == IF stop THEN [cl EXCEPT !.isTypingLocal = FALSE] ELSE cl
    IN
    /\ ChatShown(client[c])
    /\ IF Trim(text) = <<>>
       THEN /\ msgs' = msgs /\ presence' = presence /\ clock' = clock
            /\ presWrites' = presWrites
            /\ Handler(c, cl, FALSE, "editor_send", <<>>, NoTime, text, 0)
       ELSE handleSendChat(c, stopped, Trim(text), "editor_send", <<>>,
                           IF stop
                           THEN {TypingWrite(c, cl.login.roomId, cl.login.userName,
                                             FALSE, FALSE)}
                           ELSE {})

\* Editor.handleChatInputChange: onTypingStart of the current render, then the
\* debounce timer is replaced by one that will call the current render's
\* onTypingStop
ChatInput(c) ==
    LET cl == client[c]
        start == cl.login.loggedIn /\ ~cl.isTypingLocal
        new == [cl EXCEPT
                   !.isTypingLocal = IF start THEN TRUE ELSE @,
                   !.typingTimeout = [due |-> clock + TYPING_MS,
                                      login |-> cl.login,
                                      isTypingLocal |-> cl.isTypingLocal]]
    IN
    /\ ChatShown(cl)
    /\ Handler(c, new, FALSE, "chat_input", <<>>, NoTime, <<>>, 0)
    /\ presWrites' =
           IF start
           THEN presWrites \cup
                    {TypingWrite(c, cl.login.roomId, cl.login.userName, TRUE, FALSE)}
           ELSE presWrites
    /\ UNCHANGED <<clock, msgs, presence>>

\* the debounce timer fires: handleTypingStop as captured when it was set
TypingTimeout(c) ==
    LET cl == client[c]
        t == cl.typingTimeout
        stop == t.login.loggedIn /\ t.isTypingLocal
        new == [cl EXCEPT
                   !.typingTimeout = NoTimer,
                   !.isTypingLocal = IF stop THEN FALSE ELSE @]
    IN
    /\ t.due # NoTime
    /\ clock = t.due
    /\ Handler(c, new, FALSE, "typing_timeout", <<>>, NoTime, <<>>, 0)
    /\ presWrites' =
           IF stop
           THEN presWrites \cup
                    {TypingWrite(c, t.login.roomId, t.login.userName, FALSE, FALSE)}
           ELSE presWrites
    /\ UNCHANGED <<clock, msgs, presence>>

\* addDoc resolves: the store assigns both server timestamps and the awaiting
\* handleSendChat (if its page still exists) appends the success line
SendCommit(i) ==
    /\ i \in DOMAIN msgs
    /\ msgs[i].st = "pending"
    /\ msgs' = [msgs EXCEPT ![i].st = "stored",
                            ![i].createdAt = clock,
                            ![i].seenAt[msgs[i].sender] = clock]
    /\ last' = Op("send_commit", msgs[i].origin,
                  IF msgs[i].origin # None THEN <<"message sent">> ELSE <<>>,
                  {}, NoTime, <<>>, i)
    /\ UNCHANGED <<clock, seenWrites, presence, presWrites, client, rings, ringDeletes>>

\* addDoc rejects: firebase = TRUE for a FirebaseError
SendFail(i, firebase) ==
    /\ i \in DOMAIN msgs
    /\ msgs[i].st = "pending"
    /\ msgs' = [msgs EXCEPT ![i].st = "rejected"]
    /\ last' = Op("send_fail", msgs[i].origin,
                  IF msgs[i].origin = None THEN <<>>
                  ELSE IF firebase THEN <<"firebase error: code">>
                  ELSE <<"error: err">>,
                  {}, NoTime, <<>>, i)
    /\ UNCHANGED <<clock, seenWrites, presence, presWrites, client, rings, ringDeletes>>

\* ------------------------------------------------------ snapshot delivery
\* a callback that leaves the view alone while panic is set
messagesSnapshotGated(c, cl) ==
    LET sub == cl.unsubscribeMessages
        docs == FilterDocs(SnapshotIds(sub.roomId, c),
                           cl.hideBefore[hideBeforeKey(sub.roomId, sub.userName)])
        unreadCount == Cardinality(Unseen(docs, sub.userName))
        summary == sub.firstSnapshot /\ unreadCount > 0
    IN
    [new |-> [cl EXCEPT
                 !.messages = IF cl.panic THEN @ ELSE docs,
                 !.unsubscribeMessages.firstSnapshot = FALSE,
                 !.unsubscribeMessages.deliveries = Min(@ + 1, 2)],
     lines |-> IF summary THEN <<"ncp summary: new message(s)">> ELSE <<>>,
     unread |-> IF summary THEN unreadCount ELSE NoTime]

\* the onSnapshot callback of subscribeToMessages run on the page state cl of
\* client c: the state it leaves, and the summary it logs
messagesSnapshot(c, cl) ==
    LET sub == cl.unsubscribeMessages
        docs == FilterDocs(SnapshotIds(sub.roomId, c),
                           cl.hideBefore[hideBeforeKey(sub.roomId, sub.userName)])
        unreadCount == Cardinality(Unseen(docs, sub.userName))
        summary == sub.firstSnapshot /\ unreadCount > 0
    IN
    [new |-> [cl EXCEPT
                 !.messages = docs,
                 !.unsubscribeMessages.firstSnapshot = FALSE,
                 !.unsubscribeMessages.deliveries = Min(@ + 1, 2)],
     lines |-> IF summary THEN <<"ncp summary: new message(s)">> ELSE <<>>,
     unread |-> IF summary THEN unreadCount ELSE NoTime]

\* the store delivers a snapshot of the room's messages to client c
DeliverMessages(c) ==
    LET res == messagesSnapshot(c, client[c]) IN
    /\ client[c].unsubscribeMessages.live
    /\ Handler(c, res.new, TRUE, "snapshot", res.lines, res.unread, <<>>, 0)
    /\ UNCHANGED <<clock, msgs, presence, presWrites>>

\* ------------------------------------------------------------ seen receipts
\* an update that writes the two fields whole instead of merging into them
ApplySeenOverwrite(doc, userName) ==
    [doc EXCEPT !.seenBy = <<userName>>,
                !.seenAt = [NoSeenAt EXCEPT ![userName] = clock]]

\* an update that writes seenBy as the author and the reader
ApplySeenLastReader(doc, userName) ==
    [doc EXCEPT !.seenBy = arrayUnion(<<doc.sender>>, userName),
                !.seenAt[userName] = clock]

\* updateDoc {seenBy: arrayUnion(user), seenAt.<user>: serverTimestamp()}
ApplySeen(doc, userName) ==
    [doc EXCEPT !.seenBy = arrayUnion(@, userName), !.seenAt[userName] = clock]

SeenWriteApply(w) ==
    /\ w \in seenWrites
    /\ w.id \in StoredIds(w.room)
    /\ msgs' = [msgs EXCEPT ![w.id] = ApplySeen(@, w.user)]
    /\ seenWrites' = seenWrites \ {w}
    /\ last' = Op("seen_apply", None, <<>>, {}, NoTime, <<>>, w.id)
    /\ UNCHANGED <<clock, presence, presWrites, client, rings, ringDeletes>>

\* a catch that issues the rejected write again
SeenWriteFailRetry(w) ==
    /\ w \in seenWrites
    /\ seenWrites' = seenWrites
    /\ last' = Op("seen_fail", None, <<>>, {}, NoTime, <<w.user>>, w.id)
    /\ UNCHANGED <<clock, msgs, presence, presWrites, client, rings, ringDeletes>>

\* the write is rejected (no such document, or the store is unreachable);
\* the catch only logs to the console
SeenWriteFail(w) ==
    /\ w \in seenWrites
    /\ seenWrites' = seenWrites \ {w}
    /\ last' = Op("seen_fail", None, <<>>, {}, NoTime, <<w.user>>, w.id)
    /\ UNCHANGED <<clock, msgs, presence, presWrites, client, rings, ringDeletes>>

\* ------------------------------------------------------------ clear_local
ClearLocal(c) ==
    LET cl == client[c]
        nowMs == clock
        new == [cl EXCEPT
                   !.hideBefore[hideBeforeKey(cl.login.roomId, cl.login.userName)] = nowMs,
                   !.messages = FilterOnClear(@, nowMs)]
    IN
    /\ UNCHANGED <<clock, msgs, presence, presWrites>>
    /\ IF ~cl.login.loggedIn
       THEN Handler(c, cl, FALSE, "clear_local",
                    <<EchoLine("clear_local"), "error: not logged in">>,
                    NoTime, <<>>, 0)
       ELSE Handler(c, new, TRUE, "clear_local",
                    <<EchoLine("clear_local"), "local chat history cleared">>,
                    NoTime, <<>>, 0)

\* ------------------------------------------------------------ panic, focus
\* hideChatAndSwitch
hideChatAndSwitch(cl) ==
    [cl EXCEPT
        !.panic = TRUE,
        !.activeFileId =
            IF cl.chatFileId = None THEN @
            ELSE IF @ # cl.chatFileId THEN @
            ELSE findFirstSafeFile(cl.files)]

AddTab(tabs, id) == IF id \in Range(tabs) THEN tabs ELSE Append(tabs, id)

\* handleCommand("hide_chat")
HideChat(c) ==
    /\ Handler(c, hideChatAndSwitch(client[c]), FALSE, "hide_chat",
               <<EchoLine("hide_chat"), "chat file hidden">>, NoTime, <<>>, 0)
    /\ UNCHANGED <<clock, msgs, presence, presWrites>>

\* a chord that hides only while a session is open
ChordInSession(c) ==
    /\ Handler(c, IF client[c].login.loggedIn
                  THEN hideChatAndSwitch(client[c]) ELSE client[c],
               FALSE, "chord", <<>>, NoTime, <<>>, 0)
    /\ UNCHANGED <<clock, msgs, presence, presWrites>>

\* keydown Ctrl/Cmd+Shift+X
Chord(c) ==
    /\ Handler(c, hideChatAndSwitch(client[c]), FALSE, "chord",
               <<>>, NoTime, <<>>, 0)
    /\ UNCHANGED <<clock, msgs, presence, presWrites>>

\* a resume that also restarts the idle clock
NcpRunMarksActivity(c) ==
    LET cl == client[c]
        new == [cl EXCEPT !.panic = FALSE,
                          !.activeFileId = cl.chatFileId,
                          !.openTabs = AddTab(@, cl.chatFileId),
                          !.lastActivity = clock]
    IN
    /\ UNCHANGED <<clock, msgs, presence, presWrites>>
    /\ IF ~cl.login.loggedIn
       THEN Handler(c, cl, FALSE, "ncp_run",
                    <<EchoLine("ncp run"), "error: not logged in">>, NoTime, <<>>, 0)
       ELSE IF cl.chatFileId # None
       THEN Handler(c, new, FALSE, "ncp_run",
                    <<EchoLine("ncp run"), "running ncp... opening job file">>,
                    NoTime, <<>>, 0)
       ELSE Handler(c, cl, FALSE, "ncp_run",
                    <<EchoLine("ncp run"), "chat file not initialized">>,
                    NoTime, <<>>, 0)

\* handleCommand("ncp run")
NcpRun(c) ==
    LET cl == client[c]
        new == [cl EXCEPT !.panic = FALSE,
                          !.activeFileId = cl.chatFileId,
                          !.openTabs = AddTab(@, cl.chatFileId)]
    IN
    /\ UNCHANGED <<clock, msgs, presence, presWrites>>
    /\ IF ~cl.login.loggedIn
       THEN Handler(c, cl, FALSE, "ncp_run",
                    <<EchoLine("ncp run"), "error: not logged in">>, NoTime, <<>>, 0)
       ELSE IF cl.chatFileId # None
       THEN Handler(c, new, FALSE, "ncp_run",
                    <<EchoLine("ncp run"), "running ncp... opening job file">>,
                    NoTime, <<>>, 0)
       ELSE Handler(c, cl, FALSE, "ncp_run",
                    <<EchoLine("ncp run"), "chat file not initialized">>,
                    NoTime, <<>>, 0)

\* handleSelectFile(id): a click on a file of the Explorer
SelectFile(c, id) ==
    LET cl == client[c]
        new == [cl EXCEPT !.activeFileId = id, !.openTabs = AddTab(@, id)]
    IN
    /\ id \in Range(FileIds(cl.files))
    /\ Handler(c, new, FALSE, "select", <<>>, NoTime, <<id>>, 0)
    /\ UNCHANGED <<clock, msgs, presence, presWrites>>

\* a click on an open tab: setActiveFileId(id)
SelectTab(c, id) ==
    LET cl == client[c] IN
    /\ id \in Range(cl.openTabs)
    /\ HasNode(cl.files, id)
    /\ Handler(c, [cl EXCEPT !.activeFileId = id], FALSE, "select_tab",
               <<>>, NoTime, <<id>>, 0)
    /\ UNCHANGED <<clock, msgs, presence, presWrites>>

\* Explorer.handleDelete(id)
DeleteNode(c, id) ==
    LET cl == client[c]
        new == [cl EXCEPT !.files = deleteNode(@, id),
                          !.activeFileId = IF id = @ THEN None ELSE @]
    IN
    /\ id \in Range(NodeIds(cl.files))
    /\ Handler(c, new, FALSE, "delete", <<>>, NoTime, <<>>, 0)
    /\ UNCHANGED <<clock, msgs, presence, presWrites>>


\* ------------------------------------------------- visibility and activity
\* a visibilitychange listener that is installed whether or not a session is
\* open and writes under the last identity the page has
VisibilityChangeUngated(c) ==
    LET cl == client[c]
        visible == ~cl.tabVisible
        new == [cl EXCEPT !.tabVisible = visible,
                          !.lastHidden = IF visible THEN NoTime ELSE clock]
    IN
    /\ Handler(c, new, FALSE, "visibility", <<>>, NoTime, <<>>, 0)
    /\ presWrites' =
           presWrites \cup
               {StatusWrite(c, cl.unsubscribePresence.roomId,
                            cl.unsubscribePresence.userName,
                            IF visible THEN "online" ELSE "away", FALSE)}
    /\ UNCHANGED <<clock, msgs, presence>>

\* visibilitychange: the tracking handler and, when logged in, the presence
\* handler
VisibilityChange(c) ==
    LET cl == client[c]
        visible == ~cl.tabVisible
        new == [cl EXCEPT !.tabVisible = visible,
                          !.lastHidden = IF visible THEN NoTime ELSE clock]
    IN
    /\ Handler(c, new, FALSE, "visibility", <<>>, NoTime, <<>>, 0)
    /\ presWrites' =
           IF cl.login.loggedIn
           THEN presWrites \cup
                    {StatusWrite(c, cl.login.roomId, cl.login.userName,
                                 IF visible THEN "online" ELSE "away", FALSE)}
           ELSE presWrites
    /\ UNCHANGED <<clock, msgs, presence>>

\* mousemove / keydown / click / scroll
Activity(c) ==
    /\ Handler(c, markActivity(client[c]), FALSE, "activity", <<>>, NoTime, <<>>, 0)
    /\ UNCHANGED <<clock, msgs, presence, presWrites>>

\* a policy that waits until the limit is exceeded
idlePolicyStrict(cl, now) ==
    LET idleTooLong == now - cl.lastActivity > IDLE_MS
        hiddenTooLong == cl.lastHidden # NoTime /\ now - cl.lastHidden > IDLE_MS
    IN (idleTooLong \/ hiddenTooLong) /\ ~cl.panic

\* the test of the interval callback: (idleTooLong || hiddenTooLong) &&
\* !panicRef.current
idlePolicy(cl, now) ==
    LET idleTooLong == now - cl.lastActivity >= IDLE_MS
        hiddenTooLong == cl.lastHidden # NoTime /\ now - cl.lastHidden >= IDLE_MS
    IN (idleTooLong \/ hiddenTooLong) /\ ~cl.panic

\* the setInterval callback of the idle effect, due every CHECK_MS
Poll(c) ==
    LET cl == client[c]
        due == [cl EXCEPT !.nextPoll = clock + CHECK_MS]
    IN
    /\ clock = cl.nextPoll
    /\ UNCHANGED <<clock, msgs, presence, presWrites>>
    /\ IF ~cl.login.loggedIn \/ cl.chatFileId = None
       THEN Handler(c, due, FALSE, "poll", <<>>, NoTime, <<>>, 0)
       ELSE IF idlePolicy(cl, clock)
       THEN Handler(c, hideChatAndSwitch(due), FALSE, "poll", <<>>, NoTime, <<>>, 1)
       ELSE Handler(c, due, FALSE, "poll", <<>>, NoTime, <<>>, 0)

\* time passes; an interval that is due fires before time moves on
NextTimer == CHOOSE t \in {client[c].nextPoll : c \in Clients} :
                 \A c \in Clients : t <= client[c].nextPoll

Tick(limit) ==
    LET d == Min(TickMs, NextTimer - clock) IN
    /\ d > 0
    /\ clock + d <= limit
    /\ clock' = clock + d
    /\ last' = Op("tick", None, <<>>, {}, NoTime, <<>>, 0)
    /\ UNCHANGED <<msgs, seenWrites, presence, presWrites, client, rings, ringDeletes>>

\* ---------------------------------------------------- presence snapshots
\* snapshot.docs of the presence collection, in document (user name) order
UserOrder == <<"alice", "bob", "x_alice">>

\* data.status ?? (data.online ? "online" : "offline")
ReadStatus(doc) == IF doc.status = "unset" THEN "offline" ELSE doc.status

PresenceNotice(acc, name, status, prevStatus, currentUser, online) ==
    LET notify == name # currentUser /\ status # prevStatus IN
    IF online THEN Append(acc.lines, OnlineLine(name))
    ELSE IF notify /\ status = "away" THEN Append(acc.lines, AwayLine(name))
    ELSE IF notify /\ status = "offline" THEN Append(acc.lines, OfflineLine(name))
    ELSE acc.lines

\* a callback that lets an online notice through 2000 ms after the last one
PresenceDocInclusive(acc, prev, name, doc, currentUser, now) ==
    LET status == ReadStatus(doc)
        prevStatus == IF prev[name].status = "none" THEN "offline"
                      ELSE prev[name].status
        lastLog == IF acc.log[name] = NoTime THEN 0 ELSE acc.log[name]
        notify == name # currentUser /\ status # prevStatus
        online == notify /\ status = "online" /\ now - lastLog >= ONLINE_LOG_MS
    IN
    [map |-> [acc.map EXCEPT ![name] = [status |-> status, typing |-> doc.typing]],
     log |-> IF online THEN [acc.log EXCEPT ![name] = now] ELSE acc.log,
     lines |-> PresenceNotice(acc, name, status, prevStatus, currentUser, online)]

\* one document of the forEach of the presence onSnapshot callback; acc is
\* [map, log, lines]
PresenceDoc(acc, prev, name, doc, currentUser, now) ==
    LET status == ReadStatus(doc)
        prevStatus == IF prev[name].status = "none" THEN "offline"
                      ELSE prev[name].status
        lastLog == IF acc.log[name] = NoTime THEN 0 ELSE acc.log[name]
        notify == name # currentUser /\ status # prevStatus
        online == notify /\ status = "online" /\ now - lastLog > ONLINE_LOG_MS
    IN
    [map |-> [acc.map EXCEPT ![name] = [status |-> status, typing |-> doc.typing]],
     log |-> IF online THEN [acc.log EXCEPT ![name] = now] ELSE acc.log,
     lines |-> PresenceNotice(acc, name, status, prevStatus, currentUser, online)]

RECURSIVE PresenceFold(_, _, _, _, _, _)
PresenceFold(acc, prev, names, roomId, currentUser, now) ==
    IF names = <<>> THEN acc
    ELSE LET name == Head(names)
             doc == presence[<<roomId, name>>]
         IN PresenceFold(
                IF doc.status = "none" THEN acc
                ELSE PresenceDoc(acc, prev, name, doc, currentUser, now),
                prev, Tail(names), roomId, currentUser, now)

\* the onSnapshot callback of subscribeToPresence run on the page state cl
presenceSnapshot(cl) ==
    LET sub == cl.unsubscribePresence
        res == PresenceFold([map |-> cl.presenceMap, log |-> cl.onlineLog,
                             lines |-> <<>>],
                            cl.presenceMap, UserOrder, sub.roomId, sub.userName,
                            clock)
    IN
    [new |-> [cl EXCEPT !.presenceMap = res.map, !.onlineLog = res.log],
     lines |-> res.lines]

\* the store delivers a snapshot of the room's presence documents to client c
DeliverPresence(c) ==
    LET res == presenceSnapshot(client[c]) IN
    /\ client[c].unsubscribePresence.live
    /\ Handler(c, res.new, FALSE, "presence_snapshot", res.lines, NoTime,
               <<client[c].presenceMap>>, 0)
    /\ UNCHANGED <<clock, msgs, presence, presWrites>>

\* ------------------------------------------------------------------ rings
\* the environment of `new Notification(...)`: permission granted and the
\* constructor works, permission granted and it throws, permission not
\* granted, no Notification API
Notifs == {"granted", "throws", "denied", "unavailable"}

RingDelete(id, c) == [id |-> id, by |-> c]

\* a callback that tests only the age of the event
onRingAddedAgeOnly(currentUser, sender, createdAt, now, notif) ==
    IF createdAt # NoTime /\ now - createdAt > RING_MAX_AGE_MS
    THEN [lines |-> <<>>, alert |-> FALSE, delete |-> TRUE]
    ELSE IF notif = "granted"
    THEN [lines |-> <<"ring received">>, alert |-> TRUE, delete |-> TRUE]
    ELSE [lines |-> <<"ring: triggered a notification", "ring received">>,
          alert |-> FALSE, delete |-> TRUE]

\* a callback that gives up when the Notification constructor throws
onRingAddedNoCatch(currentUser, sender, createdAt, now, notif) ==
    IF sender = currentUser
    THEN [lines |-> <<>>, alert |-> FALSE, delete |-> TRUE]
    ELSE IF createdAt # NoTime /\ now - createdAt > RING_MAX_AGE_MS
    THEN [lines |-> <<>>, alert |-> FALSE, delete |-> TRUE]
    ELSE IF notif = "granted"
    THEN [lines |-> <<"ring received">>, alert |-> TRUE, delete |-> TRUE]
    ELSE IF notif = "throws"
    THEN [lines |-> <<>>, alert |-> FALSE, delete |-> FALSE]
    ELSE [lines |-> <<"ring: triggered a notification", "ring received">>,
          alert |-> FALSE, delete |-> TRUE]

\* the body of docChanges().forEach for one added ring document: the lines it
\* appends, whether a system notification is shown, whether deleteDoc is called
onRingAdded(currentUser, sender, createdAt, now, notif) ==
    IF sender = currentUser
    THEN [lines |-> <<>>, alert |-> FALSE, delete |-> TRUE]
    ELSE IF createdAt # NoTime /\ now - createdAt > RING_MAX_AGE_MS
    THEN [lines |-> <<>>, alert |-> FALSE, delete |-> TRUE]
    ELSE IF notif = "granted"
    THEN [lines |-> <<"ring received">>, alert |-> TRUE, delete |-> TRUE]
    ELSE [lines |-> <<"ring: triggered a notification", "ring received">>,
          alert |-> FALSE, delete |-> TRUE]

\* the ring documents the listener of page c can be handed: the store's
\* documents of the room and the page's own unacknowledged adds, without the
\* documents the page has a queued deleteDoc for
VisibleRings(room, c) ==
    {i \in DOMAIN rings :
        /\ rings[i].room = room
        /\ \/ rings[i].st = "stored"
           \/ (rings[i].st = "pending" /\ rings[i].origin = c)
        /\ RingDelete(i, c) \notin ringDeletes}

\* handleCommand("ring"), up to the await of addDoc
RingSend(c) ==
    LET cl == client[c] IN
    /\ UNCHANGED <<clock, msgs, presence, presWrites, client, seenWrites, ringDeletes>>
    /\ IF ~cl.login.loggedIn
       THEN /\ rings' = rings
            /\ last' = Op("ring_send", c, <<EchoLine("ring"), "error: not logged in">>,
                          {}, NoTime, <<>>, 0)
       ELSE /\ Len(rings) < MaxRings
            /\ rings' = Append(rings,
                   [room |-> cl.login.roomId, origin |-> c, st |-> "pending",
                    sender |-> cl.login.userName, createdAt |-> NoTime])
            /\ last' = Op("ring_send", c, <<EchoLine("ring")>>, {}, NoTime, <<>>,
                          Len(rings) + 1)

\* addDoc of the ring resolves: the store assigns createdAt
RingCommit(i) ==
    /\ i \in DOMAIN rings
    /\ rings[i].st = "pending"
    /\ rings' = [rings EXCEPT ![i].st = "stored", ![i].createdAt = clock]
    /\ last' = Op("ring_commit", rings[i].origin,
                  IF rings[i].origin # None THEN <<"ring sent">> ELSE <<>>,
                  {}, NoTime, <<>>, i)
    /\ UNCHANGED <<clock, msgs, presence, presWrites, client, seenWrites, ringDeletes>>

\* a rejected addDoc that is followed by a second attempt
RingFailRetry(i) ==
    /\ i \in DOMAIN rings
    /\ rings[i].st = "pending"
    /\ rings' = rings
    /\ last' = Op("ring_fail", rings[i].origin,
                  IF rings[i].origin # None THEN <<"failed to send ring">> ELSE <<>>,
                  {}, NoTime, <<>>, i)
    /\ UNCHANGED <<clock, msgs, presence, presWrites, client, seenWrites, ringDeletes>>

\* addDoc of the ring rejects
RingFail(i) ==
    /\ i \in DOMAIN rings
    /\ rings[i].st = "pending"
    /\ rings' = [rings EXCEPT ![i].st = "rejected"]
    /\ last' = Op("ring_fail", rings[i].origin,
                  IF rings[i].origin # None THEN <<"failed to send ring">> ELSE <<>>,
                  {}, NoTime, <<>>, i)
    /\ UNCHANGED <<clock, msgs, presence, presWrites, client, seenWrites, ringDeletes>>

\* the rings listener of page c is handed document i as an added change;
\* ringNoticed keeps the rings whose `ring received` line the terminal holds
ObserveRing(c, i, notif) ==
    LET cl == client[c]
        sub == cl.unsubscribeRings
        res == onRingAdded(sub.userName, rings[i].sender, rings[i].createdAt,
                           clock, notif)
    IN
    /\ sub.live
    /\ i \in VisibleRings(sub.roomId, c) \ cl.ringsDelivered
    /\ client' = [client EXCEPT
                      ![c].ringsDelivered = @ \cup {i},
                      ![c].ringNoticed = IF res.lines # <<>> THEN @ \cup {i} ELSE @]
    /\ ringDeletes' = IF res.delete THEN ringDeletes \cup {RingDelete(i, c)}
                      ELSE ringDeletes
    /\ last' = Op("ring", c, res.lines, {}, NoTime,
                  <<notif, IF res.alert THEN "alert" ELSE "no alert">>, i)
    /\ UNCHANGED <<clock, msgs, presence, presWrites, seenWrites, rings>>

\* a deleteDoc on a ring settles, after the add of the same page if that is
\* still queued: the document is deleted (deleting a missing document succeeds
\* too) or the call is rejected and the catch ignores it
RingDeleteSettle(d, ok) ==
    /\ d \in ringDeletes
    /\ rings[d.id].st # "pending"
    /\ ringDeletes' = ringDeletes \ {d}
    /\ rings' = IF ok /\ rings[d.id].st = "stored"
                THEN [rings EXCEPT ![d.id].st = "deleted"] ELSE rings
    /\ last' = Op("ring_delete", None, <<>>, {}, NoTime, <<>>, d.id)
    /\ UNCHANGED <<clock, msgs, presence, presWrites, client, seenWrites>>

\* ------------------------------------------------------- fine-grained time
\* the instants at which a timer of some page is due
DueTimes ==
    {client[c].nextPoll : c \in Clients} \cup
    {client[c].typingTimeout.due : c \in {d \in Clients :
                                            client[d].typingTimeout.due # NoTime}}

\* time passes by at most `step`; a timer that is due fires before time moves on
Elapse(step, limit) ==
    LET due == CHOOSE t \in DueTimes : \A u \in DueTimes : t <= u
        d == Min(step, due - clock)
    IN
    /\ d > 0
    /\ clock + d <= limit
    /\ clock' = clock + d
    /\ last' = Op("tick", None, <<>>, {}, NoTime, <<>>, 0)
    /\ UNCHANGED <<msgs, seenWrites, presence, presWrites, client, rings, ringDeletes>>

\* ------------------------------------------------------------ page reload
\* the page is reloaded: beforeunload issues the offline write, all React
\* state is rebuilt, localStorage survives, and the auto-login effect runs
Reload(c) ==
    LET old == client[c]
        base == [InitClient EXCEPT
                    !.hideBefore = old.hideBefore,
                    !.identity = old.identity,
                    !.tabVisible = old.tabVisible,
                    !.lastHidden = IF old.tabVisible THEN NoTime ELSE clock,
                    !.lastActivity = clock,
                    !.nextPoll = clock + CHECK_MS]
        id == old.identity
        auto == id.roomId # None
        new == IF auto
               THEN Subscribe(ensureChatFile(
                        [base EXCEPT !.login = [loggedIn |-> TRUE,
                                                roomId |-> id.roomId,
                                                userName |-> id.userName]]),
                        id.roomId, id.userName)
               ELSE base
        unload == IF old.login.loggedIn
                  THEN {StatusWrite(c, old.login.roomId, old.login.userName,
                                    "offline", FALSE)}
                  ELSE {}
        online == IF auto
                  THEN {StatusWrite(c, id.roomId, id.userName, "online", FALSE)}
                  ELSE {}
    IN
    /\ client' = [client EXCEPT ![c] = new]
    /\ presWrites' = {IF w.by = c THEN [w EXCEPT !.awaited = FALSE] ELSE w :
                         w \in presWrites} \cup unload \cup online
    /\ msgs' = [i \in DOMAIN msgs |->
                   IF msgs[i].origin = c /\ msgs[i].st = "pending"
                   THEN [msgs[i] EXCEPT !.origin = None] ELSE msgs[i]]
    /\ last' = Op("reload", c, IF auto THEN <<"auto-login to room">> ELSE <<>>,
                  {}, NoTime, <<>>, 0)
    /\ rings' = [i \in DOMAIN rings |->
                    IF rings[i].origin = c /\ rings[i].st = "pending"
                    THEN [rings[i] EXCEPT !.origin = None] ELSE rings[i]]
    /\ UNCHANGED <<clock, seenWrites, presence, ringDeletes>>

\* ------------------------------------------------------------- properties
\* the page's session identity and the watermark stored for it
Watermark(cl) ==
    IF cl.login.loggedIn
    THEN cl.hideBefore[hideBeforeKey(cl.login.roomId, cl.login.userName)] ELSE NoTime

ViewIds(cl) == {cl.messages[i].id : i \in DOMAIN cl.messages}

SendOps == {"send", "editor_send"}

HideOps == {"hide_chat", "chord"}

SummaryLine == <<"ncp summary: new message(s)">>

\* the users a document holds a seenAt time for
SeenAtKeys(doc) == {u \in Users : doc.seenAt[u] # NoTime}

\* the first file, in pre-order, that is not the chat file
FirstSafe(files) ==
    LET safe == SelectSeq(FileIds(files), LAMBDA id : id # ChatId)
    IN IF safe = <<>> THEN None ELSE safe[1]

\* C1: watermark correctness.  After clear_local at time now for the session's
\* identity, the filtered cached view and every view a later snapshot
\* produces hold no message created before now, and a snapshot's view holds
\* every stored message of the room created at or after now (createdAt = now
\* included).
C1_WatermarkShowsFromNow ==
    \A c \in Clients :
        LET cl == client[c]
            wm == Watermark(cl)
        IN (last.client = c /\ last.op \in {"snapshot", "clear_local"} /\ wm # NoTime)
           => /\ \A i \in DOMAIN cl.messages :
                     cl.messages[i].createdAt = NoTime \/ cl.messages[i].createdAt >= wm
              /\ last.op = "snapshot"
                 => \A j \in StoredIds(cl.login.roomId) :
                        msgs[j].createdAt >= wm => j \in ViewIds(cl)

\* C2 (as first stated): the first snapshot of every subscription instance
\* emits exactly one unread summary carrying the unread count.
C2_FirstSnapshotAlwaysSummarises ==
    \A c \in Clients :
        LET cl == client[c]
            sub == cl.unsubscribeMessages
        IN (last.client = c /\ last.op = "snapshot" /\ sub.deliveries = 1)
           => /\ Len(last.lines) = 1
              /\ last.unread = Cardinality(Unseen(cl.messages, sub.userName))

\* C2: one-shot unread summary.  On every subscription instance the first
\* snapshot emits one summary whose count is the number of messages of the
\* filtered view with sender # self and self not in seenBy when that count is
\* positive, and nothing when it is zero; no later snapshot of the instance
\* emits a summary; a new instance starts a fresh one-shot.
C2_OneShotSummary ==
    \A c \in Clients :
        LET cl == client[c]
            sub == cl.unsubscribeMessages
            n == Cardinality(Unseen(cl.messages, sub.userName))
        IN (last.client = c /\ last.op = "snapshot")
           => IF sub.deliveries = 1 /\ n > 0
              THEN last.lines = SummaryLine /\ last.unread = n
              ELSE last.lines = <<>> /\ last.unread = NoTime

\* a summary on the first snapshot of a subscription opened by a page that was
\* logged in as another user before (the view holds that user's message)
C2_Witness ==
    \E c \in Clients :
        LET cl == client[c] IN
        /\ last.client = c /\ last.op = "snapshot"
        /\ cl.unsubscribeMessages.deliveries = 1
        /\ last.lines = SummaryLine /\ last.unread >= 1
        /\ \E i \in DOMAIN cl.messages :
               /\ cl.messages[i].sender # cl.login.userName
               /\ msgs[cl.messages[i].id].st = "stored"

\* C3: a send with non-blank content by a logged-in user u appends exactly one
\* document: the trimmed content, sender u, seenBy = <<u>>, the session's
\* room; nothing else in the store changes, so n identical sends append n
\* documents.  When the store acknowledges it, createdAt and seenAt[u] are the
\* server time and no other seenAt key is set.
C3_SendAppendsOne ==
    [][ /\ \A c \in Clients :
              (last'.client = c /\ last'.op \in SendOps
               /\ client[c].login.loggedIn /\ Trim(last'.arg) # <<>>)
              => /\ Len(msgs') = Len(msgs) + 1
                 /\ SubSeq(msgs', 1, Len(msgs)) = msgs
                 /\ LET m == msgs'[Len(msgs')]
                        u == client[c].login.userName
                    IN /\ m.content = Trim(last'.arg)
                       /\ m.content[1] # SP /\ m.content[Len(m.content)] # SP
                       /\ m.sender = u
                       /\ m.seenBy = <<u>>
                       /\ m.room = client[c].login.roomId
        /\ last'.op = "send_commit"
           => LET i == last'.id
                  u == msgs[i].sender
              IN /\ msgs'[i].st = "stored"
                 /\ msgs'[i].createdAt = clock
                 /\ msgs'[i].seenAt = [NoSeenAt EXCEPT ![u] = clock]
                 /\ msgs'[i].seenBy = <<u>>
                 /\ msgs'[i].content = msgs[i].content
                 /\ \A j \in DOMAIN msgs \ {i} : msgs'[j] = msgs[j]
      ]_vars

\* two stored documents of one sender with the same content
C3_Witness ==
    \E i, j \in DOMAIN msgs :
        /\ i < j
        /\ msgs[i].st = "stored" /\ msgs[j].st = "stored"
        /\ msgs[i].sender = msgs[j].sender
        /\ msgs[i].content = msgs[j].content
        /\ msgs[i].room = msgs[j].room

\* C4: a send without a session, or with content that is empty after trimming,
\* appends nothing and is reported as a failure, never as a successful send.
C4_FailedSendNotReportedSent ==
    \A c \in Clients :
        (last.client = c /\ last.op \in SendOps
         /\ (~client[c].login.loggedIn \/ Trim(last.arg) = <<>>))
        => /\ last.id = 0
           /\ "message sent" \notin Range(last.lines)

C6_MarkSeenIdempotent ==
    \A w \in seenWrites :
        w.id \in DOMAIN msgs
        => LET once == ApplySeen(msgs[w.id], w.user)
               twice == ApplySeen(once, w.user)
           IN /\ twice.seenBy = once.seenBy
              /\ Cardinality(Range(once.seenBy)) = Len(once.seenBy)
              /\ w.user \in Range(once.seenBy)

\* a receipt in flight for a message the store already marks as seen by the
\* same user: its application is the second one
C6_Witness ==
    \E w \in seenWrites :
        /\ w.id \in StoredIds(w.room)
        /\ w.user \in Range(msgs[w.id].seenBy)
        /\ msgs[w.id].seenAt[w.user] # NoTime

\* C7: store monotonicity.  Whatever the pages do, no document leaves the
\* store, a document's seenBy and the keys of its seenAt only grow, and its
\* createdAt, sender, content and room never change once assigned.
C7_StoreMonotone ==
    [][ /\ Len(msgs') >= Len(msgs)
        /\ \A i \in DOMAIN msgs :
              /\ msgs[i].st = "stored" => msgs'[i].st = "stored"
              /\ Range(msgs[i].seenBy) \subseteq Range(msgs'[i].seenBy)
              /\ SeenAtKeys(msgs[i]) \subseteq SeenAtKeys(msgs'[i])
              /\ msgs[i].createdAt # NoTime => msgs'[i].createdAt = msgs[i].createdAt
              /\ msgs'[i].sender = msgs[i].sender
              /\ msgs'[i].content = msgs[i].content
              /\ msgs'[i].room = msgs[i].room
      ]_vars

\* a document created earlier, since marked seen by the other user and hidden
\* by the reader's watermark
C7_Witness ==
    \E i \in DOMAIN msgs, c \in Clients :
        /\ msgs[i].st = "stored"
        /\ Len(msgs[i].seenBy) = 2
        /\ SeenAtKeys(msgs[i]) = Chatters
        /\ msgs[i].createdAt < clock
        /\ Watermark(client[c]) # NoTime
        /\ msgs[i].createdAt <= Watermark(client[c])

\* C8: idle panic timing.  The interval of a page fires every 30 s and time
\* never passes a due poll.  A poll of a logged-in page with a chat file and
\* no panic enters panic exactly when the last activity is at least 5 minutes
\* old or the tab has been hidden for at least 5 minutes without a break; a
\* visible tab has no hidden clock.
C8_IdlePanicTiming ==
    \A c \in Clients :
        LET cl == client[c]
            idle == clock - cl.lastActivity
            hidden == IF cl.lastHidden = NoTime THEN 0 ELSE clock - cl.lastHidden
        IN /\ clock <= cl.nextPoll /\ cl.nextPoll <= clock + CHECK_MS
           /\ cl.tabVisible <=> cl.lastHidden = NoTime
           /\ (last.client = c /\ last.op = "poll")
              => /\ last.id = 1 => /\ cl.panic
                                   /\ idle >= IDLE_MS \/ hidden >= IDLE_MS
                 /\ (last.id = 0 /\ cl.login.loggedIn /\ cl.chatFileId # None
                     /\ ~cl.panic)
                    => idle < IDLE_MS /\ hidden < IDLE_MS

\* a poll entered panic for idleness alone, the activity being later than the
\* page load and the deadline falling between two polls
C8_Witness ==
    \E c \in Clients :
        LET cl == client[c] IN
        /\ last.client = c /\ last.op = "poll" /\ last.id = 1
        /\ cl.panic
        /\ cl.tabVisible
        /\ cl.lastActivity > Epoch
        /\ clock - cl.lastActivity > IDLE_MS

\* C9: entering panic (hide_chat, the chord, the idle poll) sets panic; an
\* active chat file is replaced by the first file of the tree, in pre-order,
\* that is not the chat file, or by no file when there is none; any other
\* active view is left as it is.
C9_EnterPanicRedirects ==
    [][ \A c \in Clients :
            (last'.client = c
             /\ (last'.op \in HideOps \/ (last'.op = "poll" /\ last'.id = 1)))
            => /\ client'[c].panic
               /\ IF client[c].chatFileId # None
                     /\ client[c].activeFileId = client[c].chatFileId
                  THEN client'[c].activeFileId = FirstSafe(client[c].files)
                  ELSE client'[c].activeFileId = client[c].activeFileId
      ]_vars

\* after hide_chat the active view is a file the user never opened, and it is
\* not the first file of the initial tree: the redirect chose it
C9_Witness ==
    \E c \in Clients :
        LET cl == client[c] IN
        /\ last.client = c /\ last.op = "hide_chat"
        /\ cl.panic
        /\ cl.activeFileId \notin {None, "main", ChatId}
        /\ cl.activeFileId \notin Range(cl.openTabs)
        /\ ChatId \in Range(cl.openTabs)

\* the page state with the panic flag the other way
Flip(cl) == [cl EXCEPT !.panic = ~@]

\* the receipts the mark-seen effect issues when a snapshot reaches page
\* state cl
SeenOnSnapshot(c, cl) == MarkSeenWrites(cl, messagesSnapshot(c, cl).new, TRUE)

\* C10 (as first stated): the view, the presence map and the seen receipts a
\* delivery produces are the same with panic set and with panic clear.
C10_PanicChangesNothing ==
    \A c \in Clients :
        LET cl == client[c] IN
        /\ cl.unsubscribeMessages.live
           => /\ messagesSnapshot(c, Flip(cl)).new.messages
                    = messagesSnapshot(c, cl).new.messages
              /\ SeenOnSnapshot(c, Flip(cl)) = SeenOnSnapshot(c, cl)
        /\ cl.unsubscribePresence.live
           => presenceSnapshot(Flip(cl)).new.presenceMap
                  = presenceSnapshot(cl).new.presenceMap

\* C10: panic gates the view's visibility and the seen receipts, nothing
\* else.  A message snapshot installs the same view and emits the same
\* summary, and a presence snapshot installs the same presence map and emits
\* the same notices, whether panic is set or clear; every delivered snapshot
\* installs exactly the filtered documents of the room; with panic set no
\* seen receipt is issued.
C10_PanicGatesReceiptsOnly ==
    \A c \in Clients :
        LET cl == client[c]
            sub == cl.unsubscribeMessages
        IN
        /\ sub.live
           => /\ messagesSnapshot(c, Flip(cl)).new.messages
                    = messagesSnapshot(c, cl).new.messages
              /\ messagesSnapshot(c, Flip(cl)).lines = messagesSnapshot(c, cl).lines
              /\ SeenOnSnapshot(c, [cl EXCEPT !.panic = TRUE]) = {}
        /\ cl.unsubscribePresence.live
           => /\ presenceSnapshot(Flip(cl)).new.presenceMap
                    = presenceSnapshot(cl).new.presenceMap
              /\ presenceSnapshot(Flip(cl)).lines = presenceSnapshot(cl).lines
        /\ (last.client = c /\ last.op = "snapshot")
           => ViewIds(cl) =
                  {j \in StoredIds(sub.roomId) \cup PendingIds(sub.roomId, c) :
                      KeepInSnapshot(msgs[j].createdAt,
                                     cl.hideBefore[hideBeforeKey(sub.roomId, sub.userName)])}
        /\ (last.client = c /\ cl.panic) => last.seen = {}

\* a snapshot delivered in panic installed a view with an unseen message of
\* the other user, the presence map shows that user, and no receipt was issued
C10_Witness ==
    \E c \in Clients :
        LET cl == client[c] IN
        /\ last.client = c /\ last.op = "snapshot"
        /\ cl.panic /\ cl.tabVisible
        /\ Unseen(cl.messages, cl.login.userName) # {}
        /\ last.seen = {}
        /\ \E u \in Users \ {cl.login.userName} : cl.presenceMap[u].status = "online"


\* -------------------------------------------------------------- rings
RingOps == {"ring"}

\* the age of ring i now, as the callback computes it (0 without createdAt)
RingAge(i) == IF rings[i].createdAt = NoTime THEN 0 ELSE clock - rings[i].createdAt

RingNotices == {"ring: triggered a notification", "ring received"}

\* C11: a page that is handed an added ring event sent by its own user, or
\* one older than 5000 ms, calls deleteDoc on it, shows no system notification
\* and appends no terminal line.
C11_SelfOrStaleRingSilent ==
    (last.op \in RingOps /\
     \/ (client[last.client].login.loggedIn /\
         rings[last.id].sender = client[last.client].login.userName)
     \/ RingAge(last.id) > RING_MAX_AGE_MS)
    => /\ last.lines = <<>>
       /\ last.arg[2] = "no alert"
       /\ RingDelete(last.id, last.client) \in ringDeletes

\* a stored ring of another user older than 5000 ms was handed to a page
C11_Witness ==
    /\ last.op \in RingOps
    /\ client[last.client].login.loggedIn
    /\ rings[last.id].sender # client[last.client].login.userName
    /\ RingAge(last.id) > RING_MAX_AGE_MS
    /\ RingDelete(last.id, last.client) \in ringDeletes

\* C12: a page that is handed an added ring event of another user at most
\* 5000 ms old shows the system notification or, when the notification is
\* unavailable, not granted or throws, appends the fallback line, never both;
\* it appends the received line once and calls deleteDoc on the event.
C12_FreshRingAlertsOnce ==
    (/\ last.op \in RingOps
     /\ client[last.client].login.loggedIn
     /\ rings[last.id].sender # client[last.client].login.userName
     /\ RingAge(last.id) <= RING_MAX_AGE_MS)
    => /\ last.arg[2] = "alert" <=> last.arg[1] = "granted"
       /\ last.lines = IF last.arg[1] = "granted" THEN <<"ring received">>
                       ELSE <<"ring: triggered a notification", "ring received">>
       /\ RingDelete(last.id, last.client) \in ringDeletes

\* a ring of another user exactly 5000 ms old was handed to a page whose
\* Notification constructor throws
C12_Witness ==
    /\ last.op \in RingOps
    /\ client[last.client].login.loggedIn
    /\ rings[last.id].sender # client[last.client].login.userName
    /\ RingAge(last.id) = RING_MAX_AGE_MS
    /\ last.arg[1] = "throws"
    /\ last.lines = <<"ring: triggered a notification", "ring received">>


\* ----------------------------------------------------------- presence
PresenceOps == {"presence_snapshot"}

\* C13: a page appends `user u online` for another user u only if the last
\* such line it appended for u is more than 2000 ms old, so two online
\* notices of one page for one user are more than 2000 ms apart.
C13_OnlineNoticesSpaced ==
    [][\A u \in Users :
         (/\ last'.op \in PresenceOps
          /\ OnlineLine(u) \in Range(last'.lines)
          /\ client[last'.client].onlineShown[u] # NoTime)
         => clock' - client[last'.client].onlineShown[u] > ONLINE_LOG_MS]_vars

\* a snapshot in which another user turned online exactly 2000 ms after the
\* page's last online notice for that user produced no line, and a later one
\* did
C13_Witness ==
    \E u \in Users :
        /\ last.op \in PresenceOps
        /\ last.arg[1][u].status \in {"away", "offline"}
        /\ client[last.client].presenceMap[u].status = "online"
        /\ u # client[last.client].unsubscribePresence.userName
        /\ clock - client[last.client].onlineShown[u] = ONLINE_LOG_MS
        /\ last.lines = <<>>

\* an online notice was repeated for a user 3000 ms after the previous one
C13_Repeated ==
    \E u \in Users :
        /\ last.op \in PresenceOps
        /\ last.arg[1][u].status \in {"away", "offline"}
        /\ OnlineLine(u) \in Range(last.lines)
        /\ client[last.client].onlineLog[u] = clock
        /\ clock > Epoch + ONLINE_LOG_MS


\* -------------------------------------------------------- own presence
\* the presence writes a step issues
Issued ==
    {w \in presWrites' :
        \A v \in presWrites : [v EXCEPT !.awaited = FALSE] # [w EXCEPT !.awaited = FALSE]}

IssuedStatus(c, status) ==
    {w \in Issued : w.by = c /\ w.kind = "status" /\ w.status = status}

\* C14: a login that opens a session issues one status = online write for the
\* session's user; with a session open, hiding the tab issues one status =
\* away write and showing it one status = online write; unloading the page
\* issues one status = offline write, and a rejected status write outside
\* logout is followed by no further write; without a session, a visibility
\* change or an unload issues no presence write.
C14_OwnPresenceWrites ==
    [][LET c == last'.client
           was == client[c].login
           now == client'[c].login
       IN
       /\ (last'.op = "login" /\ ~was.loggedIn /\ now.loggedIn)
          => /\ Issued = IssuedStatus(c, "online")
             /\ Cardinality(Issued) = 1
             /\ \A w \in Issued : w.room = now.roomId /\ w.user = now.userName
       /\ (last'.op = "visibility" /\ was.loggedIn)
          => /\ Issued = IssuedStatus(c, IF client'[c].tabVisible THEN "online"
                                         ELSE "away")
             /\ Cardinality(Issued) = 1
             /\ \A w \in Issued : w.room = was.roomId /\ w.user = was.userName
       /\ (last'.op = "reload" /\ was.loggedIn)
          => /\ Cardinality(IssuedStatus(c, "offline")) = 1
             /\ \A w \in IssuedStatus(c, "offline") :
                    w.room = was.roomId /\ w.user = was.userName /\ ~w.awaited
       /\ (last'.op = "presence_settle" /\ last'.arg = <<FALSE>>
             /\ client[c].logoutStep = "idle")
          => Issued = {}
       /\ (last'.op \in {"visibility", "reload"} /\ ~was.loggedIn)
          => Issued = {}
      ]_vars

\* the tab of a logged-in page was hidden: an away write is in flight while
\* the store still shows the user online
C14_Witness ==
    /\ last.op = "visibility"
    /\ client[last.client].login.loggedIn
    /\ ~client[last.client].tabVisible
    /\ \E w \in presWrites : w.kind = "status" /\ w.status = "away"
    /\ presence[<<"r1", "alice">>].status = "online"

\* the tab of a logged-out page was hidden
C14_LoggedOutHidden ==
    /\ last.op = "visibility"
    /\ ~client[last.client].login.loggedIn
    /\ client[last.client].unsubscribePresence.roomId # None
    /\ ~client[last.client].tabVisible

\* C15: logout of an open session issues the typing = false write and nothing
\* else; when that write settles, applied or rejected, the status = offline
\* write is issued; when that one settles, applied or rejected, the page
\* clears the session, sets panic, closes the message and presence
\* subscriptions and removes the stored identity.
C15_LogoutSequence ==
    [][LET c == last'.client
           cl == client[c]
           new == client'[c]
       IN
       /\ (last'.op = "logout" /\ cl.login.loggedIn)
          => /\ Issued = {TypingWrite(c, cl.login.roomId, cl.login.userName,
                                      FALSE, TRUE)}
             /\ new.login = cl.login
       /\ (last'.op = "presence_settle" /\ cl.logoutStep = "typing")
          => /\ Issued = {StatusWrite(c, cl.login.roomId, cl.login.userName,
                                      "offline", TRUE)}
             /\ new.login = cl.login
       /\ (last'.op \in {"presence_settle", "logout_done"}
             /\ cl.logoutStep = "offline")
          => /\ Issued = {}
             /\ new.login = LoggedOut
             /\ new.panic
             /\ ~new.unsubscribeMessages.live
             /\ ~new.unsubscribePresence.live
             /\ new.identity = [roomId |-> None, userName |-> None]
             /\ new.logoutStep = "idle"
      ]_vars

\* a logout completed although both of its writes were rejected: the store
\* still shows the user online
C15_Witness ==
    /\ last.op = "logout_done"
    /\ last.arg = <<FALSE>>
    /\ ~client[last.client].login.loggedIn
    /\ client[last.client].panic
    /\ presence[<<"r1", "alice">>] = [status |-> "online", typing |-> FALSE]


\* -------------------------------------------------------------- typing
\* C16: when the debounce timer of a page with an open session fires, 1200 ms
\* after the last chat input, a typing = false write is issued and the local
\* typing flag is cleared.
C16_TimeoutStopsTyping ==
    [][(last'.op = "typing_timeout" /\ client[last'.client].login.loggedIn
          /\ client[last'.client].typingTimeout.login.loggedIn)
       => /\ \E w \in Issued : w.kind = "typing" /\ ~w.typing
          /\ ~client'[last'.client].isTypingLocal]_vars

\* after a burst of two inputs the timer fired, wrote typing = false and
\* cleared the flag
C16_BurstStops ==
    /\ last.op = "typing_timeout"
    /\ client[last.client].login.loggedIn
    /\ ~client[last.client].isTypingLocal
    /\ \E w \in presWrites : w.kind = "typing" /\ ~w.typing

\* at most one debounce timer is pending per page, due at most 1200 ms ahead
C16_OneTimer ==
    \A c \in Clients :
        client[c].typingTimeout.due # NoTime
        => /\ client[c].typingTimeout.due >= clock
           /\ client[c].typingTimeout.due <= clock + TYPING_MS


\* ---------------------------------------------------------- transcript
\* the positions of the view of cl whose message line is immediately
\* preceded by a separator line of that message
Separated(cl, now) ==
    LET L == Transcript(cl, now) IN
    {i \in DOMAIN cl.messages :
        \E k \in DOMAIN L :
            /\ k < Len(L)
            /\ L[k].kind = "ts" /\ L[k].id = cl.messages[i].id
            /\ L[k + 1].kind = "msg" /\ L[k + 1].id = cl.messages[i].id}

Last(S) == CHOOSE i \in S : \A j \in S : j <= i

\* C17: in the transcript of a view a separator stands immediately before
\* message i exactly when createdAt_i is defined and either no earlier message
\* has a separator or createdAt_i is at least one hour after the createdAt of
\* the latest earlier message that has one; there are no other separators.
C17_SeparatorPlacement ==
    \A c \in Clients :
        LET cl == client[c]
            view == cl.messages
            L == Transcript(cl, clock)
            sep == Separated(cl, clock)
        IN
        /\ \A i \in DOMAIN view :
               LET anchors == {j \in sep : j < i} IN
               i \in sep <=>
                   /\ view[i].createdAt # NoTime
                   /\ IF anchors = {} THEN TRUE
                      ELSE view[i].createdAt - view[Last(anchors)].createdAt
                               >= HOUR_MS
        /\ Cardinality({k \in DOMAIN L : L[k].kind = "ts"}) = Cardinality(sep)
        /\ Len(L) = Len(view) + Cardinality(sep)

\* a view of four messages at offsets 0, 30, 61 and 62 minutes has separators
\* before the first and the third only
C17_Witness ==
    \E c \in Clients :
        LET view == client[c].messages IN
        /\ Len(view) = 4
        /\ \A i \in 1..4 :
               view[i].createdAt = Epoch + <<0, 30, 61, 62>>[i] * MINUTE_MS
        /\ Separated(client[c], clock) = {1, 3}

\* a message exactly one hour after the anchor has a separator
C17_Boundary ==
    \E c \in Clients :
        LET view == client[c].messages IN
        /\ Len(view) = 2
        /\ view[1].createdAt = Epoch
        /\ view[2].createdAt = Epoch + HOUR_MS
        /\ Separated(client[c], clock) = {1, 2}

\* C18: the marker of a message line is "##" when the viewer is the author
\* and seenBy holds a user other than the author, or the viewer is another
\* user who is in seenBy; in every other case it is "#".
C18_MarkerCorrect ==
    \A c \in Clients :
        LET cl == client[c]
            viewer == cl.login.userName
            L == Transcript(cl, clock)
        IN
        \A k \in DOMAIN L : \A i \in DOMAIN cl.messages :
            (L[k].kind = "msg" /\ L[k].id = cl.messages[i].id)
            => LET m == cl.messages[i]
                   read == \/ /\ viewer = m.sender
                              /\ \E u \in Range(m.seenBy) : u # m.sender
                           \/ /\ viewer # None
                              /\ viewer # m.sender
                              /\ viewer \in Range(m.seenBy)
               IN L[k].marker = IF read THEN "##" ELSE "#"

\* one transcript shows the viewer's own message that only the viewer has
\* seen with "#", the viewer's own message that another user has seen with
\* "##" and another user's message the viewer has seen with "##"
C18_Witness ==
    \E c \in Clients :
        LET cl == client[c]
            viewer == cl.login.userName
            L == Transcript(cl, clock)
            Shown(i, marker) ==
                \E k \in DOMAIN L : /\ L[k].kind = "msg"
                                    /\ L[k].id = cl.messages[i].id
                                    /\ L[k].marker = marker
        IN
        /\ cl.login.loggedIn
        /\ \E i \in DOMAIN cl.messages :
               /\ cl.messages[i].sender = viewer
               /\ cl.messages[i].seenBy = <<viewer>>
               /\ Shown(i, "#")
        /\ \E i \in DOMAIN cl.messages :
               /\ cl.messages[i].sender = viewer
               /\ Len(cl.messages[i].seenBy) = 2
               /\ Shown(i, "##")
        /\ \E i \in DOMAIN cl.messages :
               /\ cl.messages[i].sender # viewer
               /\ viewer \in Range(cl.messages[i].seenBy)
               /\ Shown(i, "##")


\* --------------------------------------------------------------- replay
\* one run of the reconciler and the projector: the current snapshot of the
\* room reaches page state cl and the transcript is evaluated at time now
Replay(c, cl, now) ==
    LET new == messagesSnapshot(c, cl).new IN
    [view |-> new.messages, lines |-> Transcript(new, now)]

\* page states of another run that was fed the same snapshots to the same
\* subscription: its panic flag, tab visibility and earlier view may differ
ReplayStates(cl) ==
    {cl, Flip(cl), [cl EXCEPT !.tabVisible = ~@], [cl EXCEPT !.messages = <<>>]}

\* the times another run may be evaluated at: a minute later, a day later
ReplayTimes == {clock, clock + MINUTE_MS, clock + DAY_MS}

SameDay(t, u) == t \div DAY_MS = u \div DAY_MS

\* C19 (as stated): a run fed the same snapshots for the same viewer has the
\* same view and the same transcript lines, whenever it is evaluated.
C19_ReplayIdentical ==
    \A c \in Clients :
        client[c].unsubscribeMessages.live
        => \A other \in ReplayStates(client[c]) : \A now \in ReplayTimes :
               Replay(c, other, now) = Replay(c, client[c], clock)

\* C19: a run fed the same snapshots for the same viewer has the same view
\* and, evaluated on the same calendar day, the same transcript lines.
C19_ReplaySameDay ==
    \A c \in Clients :
        client[c].unsubscribeMessages.live
        => \A other \in ReplayStates(client[c]) : \A now \in ReplayTimes :
               /\ Replay(c, other, now).view = Replay(c, client[c], clock).view
               /\ SameDay(now, clock)
                  => Replay(c, other, now) = Replay(c, client[c], clock)

\* a snapshot gave a logged-in page a transcript with a separator and two
\* message lines
C19_Witness ==
    \E c \in Clients :
        LET L == Replay(c, client[c], clock).lines IN
        /\ last.op = "snapshot" /\ last.client = c
        /\ client[c].unsubscribeMessages.live
        /\ client[c].messages = Replay(c, client[c], clock).view
        /\ \E k \in DOMAIN L : L[k].kind = "ts"
        /\ Len(client[c].messages) >= 2


\* -------------------------------------------------------- subscriptions
StreamKinds == {"messages", "presence", "rings"}

\* the stored unsubscribe function of a kind
Handle(cl, kind) ==
    IF kind = "messages"
    THEN [live |-> cl.unsubscribeMessages.live, id |-> cl.unsubscribeMessages.id,
          roomId |-> cl.unsubscribeMessages.roomId,
          userName |-> cl.unsubscribeMessages.userName]
    ELSE IF kind = "presence" THEN cl.unsubscribePresence
    ELSE cl.unsubscribeRings

\* C20: a page has at most one attached listener per stream kind, and an
\* attached listener is the one of the page's latest subscription of that
\* kind, so every delivery of a kind comes from the latest subscription.
C20_OneLiveSubscription ==
    \A c \in Clients : \A kind \in StreamKinds :
        LET cl == client[c]
            live == {l \in cl.listeners : l.kind = kind}
            h == Handle(cl, kind)
        IN
        /\ Cardinality(live) <= 1
        /\ \A l \in live :
               /\ h.live
               /\ l.id = h.id /\ l.roomId = h.roomId /\ l.userName = h.userName
        /\ h.live => live # {}

\* a page that closed alice's session is subscribed again, as bob, and has
\* received a snapshot
C20_Witness ==
    \E c \in Clients :
        /\ presence[<<"r1", "alice">>].status = "offline"
        /\ client[c].login.userName = "bob"
        /\ client[c].listeners =
               {Listener(kind, 1, "r1", "bob") : kind \in StreamKinds}
        /\ last.op = "snapshot"

\* after logout the rings listener of the closed session is still attached
C20_RingsOutliveLogout ==
    \E c \in Clients :
        /\ ~client[c].login.loggedIn
        /\ client[c].listeners = {Listener("rings", 1, "r1", "alice")}


\* ------------------------------------------------------------ watermark
\* C21: the watermark stored under a key changes only in a clear_local of a
\* session whose identity has that key, which sets it to the time of the
\* call; it never becomes smaller and is never removed.
C21_WatermarkOnlyByClearLocal ==
    [][\A c \in Clients : \A k \in HideBeforeKeys :
         client'[c].hideBefore[k] # client[c].hideBefore[k]
         => /\ last'.op = "clear_local"
            /\ last'.client = c
            /\ client[c].login.loggedIn
            /\ k = hideBeforeKey(client[c].login.roomId, client[c].login.userName)
            /\ client'[c].hideBefore[k] = clock'
            /\ client'[c].hideBefore[k] >= client[c].hideBefore[k]
            /\ client'[c].hideBefore[k] # NoTime]_vars

\* a clear_local set the watermark of the session to a time after a stored
\* message of the room
C21_Witness ==
    /\ last.op = "clear_local"
    /\ client[last.client].login.loggedIn
    /\ Watermark(client[last.client]) = clock
    /\ \E i \in DOMAIN msgs :
           /\ msgs[i].st = "stored"
           /\ msgs[i].room = client[last.client].login.roomId
           /\ msgs[i].createdAt < clock

\* C27: a clear_local under one identity leaves the watermark that a session
\* of any other identity reads unchanged.
C27_WatermarksIndependent ==
    [][(last'.op = "clear_local" /\ client[last'.client].login.loggedIn)
       => \A i \in Identities :
              i # <<client[last'.client].login.roomId,
                    client[last'.client].login.userName>>
              => client'[last'.client].hideBefore[hideBeforeKey(i[1], i[2])]
                     = client[last'.client].hideBefore[hideBeforeKey(i[1], i[2])]
      ]_vars

\* two identities whose watermarks are stored under one key
C27_SharedKey ==
    \E i \in Identities : \E j \in Identities :
        /\ i # j
        /\ hideBeforeKey(i[1], i[2]) = hideBeforeKey(j[1], j[2])
        /\ \E c \in Clients :
               /\ client[c].login.loggedIn
               /\ <<client[c].login.roomId, client[c].login.userName>> = j
               /\ client[c].hideBefore[hideBeforeKey(i[1], i[2])] # NoTime
               /\ last.op = "login"


\* -------------------------------------------------------- send failures
\* the lines a command appends after the echo of its input
StatusLines(lines) == SelectSeq(lines, LAMBDA l : l # EchoLine("send"))

\* C22: a chat send that appends no message (no session, or the store rejects
\* the add) appends exactly one status line, the store's error code or a
\* generic error string, and never "message sent".
C22_FailedSendOneLine ==
    /\ (last.op \in SendOps /\ Trim(last.arg) # <<>> /\ last.id = 0)
       => /\ Len(StatusLines(last.lines)) = 1
          /\ "message sent" \notin Range(last.lines)
    /\ (last.op = "send_fail" /\ last.client # None)
       => /\ Len(last.lines) = 1
          /\ last.lines[1] \in {"firebase error: code", "error: err"}

\* the store rejected an add and the page appended one error line
C22_StoreErrorOneLine ==
    /\ last.op = "send_fail"
    /\ last.client # None
    /\ last.lines = <<"firebase error: code">>


\* ------------------------------------------------- concurrent receipts
\* C23: applying a seen receipt of user u to a message adds u to seenBy and
\* to the keys of seenAt and removes no member and no key, so receipts of two
\* users applied in either order leave both users and every earlier member.
C23_ReceiptsCommute ==
    [][last'.op = "seen_apply"
       => \E w \in seenWrites \ seenWrites' :
              LET old == msgs[w.id]
                  new == msgs'[w.id]
              IN
              /\ w.id = last'.id
              /\ Range(new.seenBy) = Range(old.seenBy) \cup {w.user}
              /\ Len(new.seenBy) = Cardinality(Range(new.seenBy))
              /\ SeenAtKeys(new) = SeenAtKeys(old) \cup {w.user}
              /\ \A u \in SeenAtKeys(old) \ {w.user} : new.seenAt[u] = old.seenAt[u]
      ]_vars

\* the receipts of alice and bob for a message of a third user are both
\* applied, the second one just now: seenBy holds the three users
C23_Witness ==
    \E i \in DOMAIN msgs :
        /\ last.op = "seen_apply" /\ last.id = i
        /\ msgs[i].sender = "x_alice"
        /\ Range(msgs[i].seenBy) = {"x_alice", "alice", "bob"}
        /\ msgs[i].seenAt["alice"] = msgs[i].seenAt["bob"]


\* ------------------------------------------------------- snapshot view
\* the documents a snapshot for client c holds under subscription sub
SnapshotDocs(c, sub) == StoredIds(sub.roomId) \cup PendingIds(sub.roomId, c)

\* C24: after a snapshot delivery the view is exactly the snapshot's
\* messages without those whose createdAt is at or before the stored
\* watermark of the subscribed (room, user), ascending by createdAt with the
\* messages still waiting for createdAt last in arrival order, no id twice.
C24_ViewIsFilteredSnapshot ==
    \A c \in Clients :
        (last.op = "snapshot" /\ last.client = c) =>
            LET cl == client[c]
                sub == cl.unsubscribeMessages
                wm == cl.hideBefore[hideBeforeKey(sub.roomId, sub.userName)]
                view == cl.messages
            IN
            /\ {view[p].id : p \in DOMAIN view}
                 = {i \in SnapshotDocs(c, sub) :
                        ~(wm # NoTime /\ msgs[i].createdAt # NoTime
                          /\ msgs[i].createdAt <= wm)}
            /\ \A p \in DOMAIN view :
                   /\ view[p].sender = msgs[view[p].id].sender
                   /\ view[p].content = msgs[view[p].id].content
                   /\ view[p].createdAt = msgs[view[p].id].createdAt
                   /\ view[p].seenBy = msgs[view[p].id].seenBy
            /\ \A p, q \in DOMAIN view :
                   p < q =>
                       /\ view[p].id # view[q].id
                       /\ view[p].createdAt = NoTime => view[q].createdAt = NoTime
                       /\ (view[p].createdAt # NoTime /\ view[q].createdAt # NoTime)
                              => view[p].createdAt <= view[q].createdAt
                       /\ (view[p].createdAt = NoTime /\ view[q].createdAt = NoTime)
                              => view[p].id < view[q].id

\* a snapshot that held a message at or before the watermark and one still
\* waiting for its createdAt: the view is the second one alone
C24_Witness ==
    \E c \in Clients :
        LET cl == client[c]
            sub == cl.unsubscribeMessages
            wm == cl.hideBefore[hideBeforeKey(sub.roomId, sub.userName)]
        IN
        /\ last.op = "snapshot" /\ last.client = c
        /\ wm # NoTime
        /\ \E i \in StoredIds(sub.roomId) : msgs[i].createdAt <= wm
        /\ Len(cl.messages) = 1
        /\ cl.messages[1].createdAt = NoTime

\* a snapshot that shows two stored messages created at different times
C24_Ordered ==
    \E c \in Clients :
        /\ last.op = "snapshot" /\ last.client = c
        /\ Len(client[c].messages) = 2
        /\ client[c].messages[1].createdAt # NoTime
        /\ client[c].messages[1].createdAt < client[c].messages[2].createdAt


C25_Refused ==
    /\ last.op = "ncp_run"
    /\ "error: not logged in" \in Range(last.lines)
    /\ client[last.client].panic

\* C26: the chord and hide_chat do the same thing to the page in every
\* state: panic becomes true, an active chat file gives way to the first safe
\* file (or to no file), any other active view stays, nothing else of the
\* page changes and no receipt is issued; afterwards the active view is not
\* the chat file.
C26_SameHideAction ==
    [][last'.op \in {"chord", "hide_chat"}
       => LET old == client[last'.client]
              new == client'[last'.client]
          IN /\ new.panic = TRUE
             /\ new.activeFileId =
                    IF old.chatFileId # None /\ old.activeFileId = old.chatFileId
                    THEN FirstSafe(old.files) ELSE old.activeFileId
             /\ new.chatFileId # None => new.activeFileId # new.chatFileId
             /\ new = [old EXCEPT !.panic = new.panic,
                                  !.activeFileId = new.activeFileId]
             /\ last'.seen = {}
             /\ \A d \in Clients \ {last'.client} : client'[d] = client[d]
             /\ UNCHANGED <<clock, msgs, presence, presWrites, seenWrites,
                            rings, ringDeletes>>]_vars

\* the chord pressed with no session open, panic already set, the tab hidden
\* and time gone by since the last activity
C26_Witness ==
    /\ last.op = "chord"
    /\ ~client[last.client].login.loggedIn
    /\ ~client[last.client].tabVisible
    /\ client[last.client].lastActivity < clock
    /\ client[last.client].panic

\* hide_chat in a session showing the chat file
C26_CommandHides ==
    /\ last.op = "hide_chat"
    /\ client[last.client].login.loggedIn
    /\ client[last.client].chatFileId # None
    /\ client[last.client].activeFileId \notin {None, client[last.client].chatFileId}
    /\ client[last.client].panic


\* ------------------------------------------------- no message is dropped
\* the lines of a transcript of one kind, in order
LinesOfKind(L, kind) == SelectSeq(L, LAMBDA l : l.kind = kind)

\* the messages of a view that have a createdAt
Dated(view) == SelectSeq(view, LAMBDA m : m.createdAt # NoTime)

\* C28: the transcript of every view holds exactly one message line per
\* message, in the order of the view, also for a message with no createdAt;
\* such a message has no separator and no sent time, and the separators are
\* the ones the view gets without it (it is not an anchor and moves none).
C28_NoMessageDropped ==
    \A c \in Clients :
        LET cl == client[c]
            view == cl.messages
            L == Transcript(cl, clock)
            M == LinesOfKind(L, "msg")
        IN
        /\ Len(M) = Len(view)
        /\ \A i \in DOMAIN view :
               /\ M[i].id = view[i].id
               /\ M[i].text = <<view[i].sender>> \o EscapeQuotes(view[i].content)
               /\ view[i].createdAt = NoTime
                    => /\ i \notin Separated(cl, clock)
                       /\ \A k \in DOMAIN L : L[k].kind = "ts" => L[k].id # view[i].id
                       /\ buildHoverText(view[i], cl.login.userName, clock).sent = <<>>
        /\ LinesOfKind(L, "ts")
             = LinesOfKind(renderedLines(Dated(view), cl.login.userName, NoTime, clock),
                           "ts")

\* a view of an older message and one that waits for its createdAt: the
\* transcript is the separator of the first and the two message lines
C28_Witness ==
    \E c \in Clients :
        LET cl == client[c]
            L == Transcript(cl, clock)
        IN
        /\ Len(cl.messages) = 2
        /\ cl.messages[1].createdAt # NoTime
        /\ cl.messages[2].createdAt = NoTime
        /\ Len(L) = 3
        /\ L[1].kind = "ts" /\ L[2].kind = "msg" /\ L[3].kind = "msg"
        /\ L[3].id = cl.messages[2].id
        /\ buildHoverText(cl.messages[1], cl.login.userName, clock).sent # <<>>

\* a view of two messages that both wait for createdAt: two lines
C28_AllPending ==
    \E c \in Clients :
        /\ Len(client[c].messages) = 2
        /\ \A i \in 1..2 : client[c].messages[i].createdAt = NoTime
        /\ Len(Transcript(client[c], clock)) = 2


\* ------------------------------------------------------ failed receipts
\* the receipts a page can issue
ReceiptWrites == {SeenWrite(i, r, u) : i \in 1..MaxMsgs, r \in Rooms, u \in Users}

\* the write w was just rejected
ReceiptFailed(w) ==
    last.op = "seen_fail" /\ last.id = w.id /\ last.arg = <<w.user>>

\* C29 (as first stated): once the receipt of a message has failed, no later
\* event makes the page issue a receipt for that message again; in
\* particular the event that follows the failure issues none.
C29_NeverIssuedAgain ==
    [][\A w \in ReceiptWrites : ReceiptFailed(w) => w \notin last'.seen]_vars

\* C29: the failure of a receipt issues no write, prints no line and changes
\* no page and no document; a receipt is issued only by a run of the
\* mark-seen effect, for a message of the view the user has not seen, once
\* per message and run.
C29_FailureOnlyLogged ==
    [][/\ (last'.op = "seen_fail") =>
             /\ \E w \in seenWrites :
                    /\ seenWrites' = seenWrites \ {w}
                    /\ w.id = last'.id /\ <<w.user>> = last'.arg
             /\ last'.seen = {} /\ last'.lines = <<>>
             /\ UNCHANGED <<client, msgs, presence, presWrites, rings,
                            ringDeletes, clock>>
       /\ (seenWrites' \ seenWrites # {}) =>
             /\ last'.client \in Clients
             /\ seenWrites' \ seenWrites \subseteq last'.seen
             /\ \A w \in last'.seen :
                    LET cl == client'[last'.client] IN
                    /\ w.user = cl.login.userName /\ w.room = cl.login.roomId
                    /\ \E p \in DOMAIN cl.messages :
                           /\ cl.messages[p].id = w.id
                           /\ w.user \notin Range(cl.messages[p].seenBy)
                           /\ cl.messages[p].sender # w.user]_vars

\* a receipt has failed and its message still shows unseen on the page
C29_Witness ==
    \E c \in Clients : \E p \in DOMAIN client[c].messages :
        /\ last.op = "seen_fail"
        /\ last.id = client[c].messages[p].id
        /\ last.arg = <<client[c].login.userName>>
        /\ client[c].login.userName \notin Range(msgs[last.id].seenBy)
        /\ MarkSeenGuard(client[c])
        /\ SeenWrite(last.id, client[c].login.roomId, client[c].login.userName)
               \notin seenWrites

\* a snapshot makes the page issue a receipt while none is in flight, for a
\* message it has shown before
C29_IssuedAgain ==
    \E c \in Clients :
        /\ last.op = "snapshot" /\ last.client = c
        /\ last.seen # {}
        /\ last.seen = seenWrites
        /\ client[c].unsubscribeMessages.deliveries = 2


\* ------------------------------------------------------ refused commands
ErrorNotices ==
    {"error: not logged in", "already logged in; use logout first",
     "usage: login <room_id> [user_name]"}

\* the step is a command that the page refuses: ncp run, clear_local, ring or
\* send without a session, login without a room id, login in a session
Refused ==
    /\ last'.client \in Clients
    /\ \/ /\ last'.op \in {"ncp_run", "clear_local", "ring_send"}
          /\ ~client[last'.client].login.loggedIn
       \/ /\ last'.op = "send" /\ last'.arg # <<>>
          /\ ~client[last'.client].login.loggedIn
       \/ /\ last'.op = "login"
          /\ (client[last'.client].login.loggedIn \/ last'.arg = <<None>>)

\* C30: a refused command prints an error notice in the same step, issues no
\* store write, and leaves the page as it was: session, panic, watermarks,
\* view, subscriptions and everything else.
C30_RefusedChangesNothing ==
    [][Refused
       => /\ \E l \in ErrorNotices : l \in Range(last'.lines)
          /\ last'.seen = {} /\ last'.id = 0
          /\ client' = client
          /\ UNCHANGED <<msgs, rings, presence, presWrites, seenWrites,
                         ringDeletes, clock>>]_vars

\* login typed in an open session that shows a message and has a watermark
C30_Witness ==
    \E c \in Clients :
        /\ last.op = "login" /\ last.client = c
        /\ "already logged in; use logout first" \in Range(last.lines)
        /\ client[c].login.loggedIn
        /\ client[c].messages # <<>>
        /\ \E k \in HideBeforeKeys : client[c].hideBefore[k] # NoTime

\* login typed without a room id
C30_LoginUsage ==
    /\ last.op = "login" /\ last.arg = <<None>>
    /\ "usage: login <room_id> [user_name]" \in Range(last.lines)

\* clear_local, ncp run, ring and send typed after a logout, with a watermark
\* left from the session
C30_ClearLocalRefused ==
    /\ last.op = "clear_local"
    /\ "error: not logged in" \in Range(last.lines)
    /\ client[last.client].panic
    /\ \E k \in HideBeforeKeys : client[last.client].hideBefore[k] # NoTime

C30_NcpRunRefused ==
    /\ last.op = "ncp_run"
    /\ "error: not logged in" \in Range(last.lines)
    /\ client[last.client].chatFileId # None

C30_RingRefused ==
    /\ last.op = "ring_send"
    /\ "error: not logged in" \in Range(last.lines)
    /\ client[last.client].unsubscribeRings.live

C30_SendRefused ==
    /\ last.op = "send"
    /\ "error: not logged in" \in Range(last.lines)
    /\ msgs # <<>>


\* ---------------------------------------------- the record after logout
\* the presence writes of page c the store has not settled yet
InFlight(c) == {w \in presWrites : w.by = c}

\* page c has left a session and all its presence writes are applied
LoggedOutSettled(c) ==
    /\ ~client[c].login.loggedIn
    /\ client[c].logoutStep = "idle"
    /\ client[c].unsubscribePresence.roomId # None
    /\ ~client[c].unsubscribePresence.live
    /\ InFlight(c) = {}

\* the presence record of the session page c has left
LeftRecord(c) ==
    presence[<<client[c].unsubscribePresence.roomId,
               client[c].unsubscribePresence.userName>>]

\* C31: once logout has completed and the store has applied every presence
\* write the page issued, the record of the session's (room, user) has
\* status = offline and typing = false, and stays so until the next login.
C31_OfflineAfterLogout ==
    \A c \in Clients :
        LoggedOutSettled(c)
        => LeftRecord(c) = [status |-> "offline", typing |-> FALSE]

\* a logout during which nothing else happened leaves the record offline
C31_QuietLogout ==
    \E c \in Clients :
        /\ LoggedOutSettled(c)
        /\ LeftRecord(c) = [status |-> "offline", typing |-> FALSE]


\* ------------------------------------------------- typing and status
\* the presence writes the store settles in a step
Settled == presWrites \ presWrites'

\* C32: a status write that the store applies changes the status of the
\* presence record and leaves its typing flag as it was.
C32_StatusKeepsTyping ==
    [][\A w \in Settled :
           (w.kind = "status" /\ last'.op \in {"presence_settle", "logout_done"}
              /\ last'.arg = <<TRUE>>)
           => presence'[<<w.room, w.user>>].typing
                  = presence[<<w.room, w.user>>].typing]_vars

\* a typing write that the store applies leaves the status as it was, once
\* the record has one
C32_TypingKeepsStatus ==
    [][\A w \in Settled :
           (w.kind = "typing" /\ last'.op \in {"presence_settle", "logout_done"}
              /\ last'.arg = <<TRUE>> /\ presence[<<w.room, w.user>>].status # "none")
           => presence'[<<w.room, w.user>>].status
                  = presence[<<w.room, w.user>>].status]_vars


\* the presence record of the session of page c
OwnRecord(c) == presence[<<client[c].login.roomId, client[c].login.userName>>]

\* C39: for a page with an open session and none of its presence or typing
\* writes in flight (all writes are applied in this specification), the local
\* typing flag equals the typing field of the session's presence record.
C39_TypingFlagInSync ==
    \A c \in Clients :
        (client[c].login.loggedIn /\ client[c].logoutStep = "idle" /\ InFlight(c) = {})
        => client[c].isTypingLocal = OwnRecord(c).typing

\* the page keeps typing after the tab was hidden and shown again: the
\* input finds the local flag set and publishes nothing
C39_TypingUnpublished ==
    \E c \in Clients :
        /\ last.op = "chat_input" /\ last.client = c
        /\ client[c].login.loggedIn /\ InFlight(c) = {}
        /\ client[c].tabVisible
        /\ client[c].isTypingLocal
        /\ ~OwnRecord(c).typing
        /\ OwnRecord(c).status = "online"


\* ------------------------------------------------------ the ring command
\* the ring events the store holds
StoredRings == {i \in DOMAIN rings : rings[i].st = "stored"}

\* the appends of ring events that wait for the store
PendingRings == {i \in DOMAIN rings : rings[i].st = "pending"}

\* C33: `ring` in a session starts exactly one append of an event with
\* sender = the session's user and no createdAt of its own; when the append
\* is rejected the page prints exactly one error notice, the store gets no
\* event and no new append is started; when it is accepted the store gets
\* exactly that one event, with createdAt = the store's time.
C33_RingAppendsOnce ==
    [][/\ (last'.op = "ring_send" /\ client[last'.client].login.loggedIn) =>
             /\ Len(rings') = Len(rings) + 1
             /\ \A i \in DOMAIN rings : rings'[i] = rings[i]
             /\ rings'[Len(rings')] =
                    [room |-> client[last'.client].login.roomId,
                     origin |-> last'.client, st |-> "pending",
                     sender |-> client[last'.client].login.userName,
                     createdAt |-> NoTime]
             /\ last'.lines = <<EchoLine("ring")>>
       /\ (last'.op = "ring_fail") =>
             /\ last'.lines = <<"failed to send ring">>
             /\ StoredRings' = StoredRings
             /\ PendingRings' = PendingRings \ {last'.id}
             /\ Len(rings') = Len(rings)
       /\ (last'.op = "ring_commit") =>
             /\ last'.lines = <<"ring sent">>
             /\ StoredRings' = StoredRings \cup {last'.id}
             /\ last'.id \notin StoredRings
             /\ PendingRings' = PendingRings \ {last'.id}
             /\ Len(rings') = Len(rings)
             /\ rings'[last'.id] = [rings[last'.id] EXCEPT !.st = "stored",
                                                             !.createdAt = clock]
       /\ (last'.op \in {"ring_send", "ring_fail", "ring_commit"}) =>
             UNCHANGED <<msgs, presence, presWrites, seenWrites, client,
                         ringDeletes, clock>>]_vars

\* a rejected ring: the error notice, and the store holds no event of it
C33_Witness ==
    /\ last.op = "ring_fail"
    /\ last.lines = <<"failed to send ring">>
    /\ rings[last.id].st = "rejected"
    /\ rings[last.id].sender = client[last.client].login.userName
    /\ PendingRings = {}

\* an accepted ring after some time has passed
C33_Accepted ==
    /\ last.op = "ring_commit"
    /\ rings[last.id].createdAt = clock
    /\ clock > Epoch


\* ------------------------------------------------------ chat file content
\* page state cl has a chat file in its tree
HasChatFile(cl) == cl.chatFileId # None /\ HasNode(cl.files, cl.chatFileId)

\* C34: the content of the chat file is the template with the transcript of
\* (messages, viewer) written into the chat zone, and writing the same
\* transcript into it once more leaves it as it is: the effect has reached a
\* fixed point and the content does not grow.
C34_WriteBackIdempotent ==
    \A c \in Clients :
        HasChatFile(client[c])
        => LET cl == client[c]
               content == chatContent(cl.files)
               lines == chatLines(cl.messages, cl.login.userName, clock)
           IN /\ content = writeChatLines(ChatTemplate, lines)
              /\ writeChatLines(content, lines) = content

\* a chat file that holds the lines of two messages
C34_TwoLines ==
    \E c \in Clients :
        /\ HasChatFile(client[c])
        /\ Len(client[c].messages) = 2
        /\ Len(chatContent(client[c].files)) >= Len(ChatTemplate) + 3

\* the effect has run again on its own output and the content has grown
C34_Grown ==
    \E c \in Clients :
        /\ last.op = "projection" /\ last.client = c
        /\ Len(chatContent(client[c].files))
             > Len(writeChatLines(ChatTemplate,
                                  chatLines(client[c].messages,
                                            client[c].login.userName, clock)))


\* C35: once the effects of a handler have run, a page in panic does not show
\* the chat file as its active file; this covers selecting the chat file in
\* the Explorer or on its tab while panic is set, and the state after logout
C35_PanicHidesChat ==
    \A c \in Clients :
        client[c].panic =>
            ~(client[c].activeFileId # None
              /\ client[c].activeFileId = client[c].chatFileId)

\* the chat file was clicked, in the Explorer or on its tab, under panic
C35_Witness ==
    \E c \in Clients :
        /\ last.client = c /\ last.op \in {"select", "select_tab"}
        /\ last.arg = <<ChatId>>
        /\ client[c].chatFileId = ChatId
        /\ HasNode(client[c].files, ChatId)
        /\ client[c].panic
        /\ client[c].activeFileId = None

\* a logout with the chat file open has closed it
C35_AfterLogout ==
    \E c \in Clients :
        /\ last.client = c /\ last.op = "logout_done"
        /\ client[c].chatFileId = ChatId
        /\ client[c].panic
        /\ client[c].activeFileId = None
        /\ ChatId \in Range(client[c].openTabs)


\* ------------------------------------------------------------ left rooms
StoreEvents == {"snapshot", "presence_snapshot", "ring"}

LogoutDone(c) == ~client[c].login.loggedIn /\ client[c].logoutStep = "idle"

\* C36: once logout has completed, no store event of any stream kind
\* (messages, presence, rings) is handled by the page: no local state changes,
\* no terminal line, no alert and no store write such as a ring delete
C36_NoEventAfterLogout ==
    [][\A c \in Clients :
          (LogoutDone(c) /\ last'.client = c /\ last'.op \in StoreEvents) =>
              /\ client'[c] = client[c]
              /\ last'.lines = <<>>
              /\ ringDeletes' = ringDeletes
              /\ seenWrites' = seenWrites]_vars

\* after a completed logout the page has no attached listener
C36_NoListenerAfterLogout ==
    \A c \in Clients : LogoutDone(c) => client[c].listeners = {}

\* a page that has logged out shows a ring of the room it left and deletes it
C36_RingAfterLogout ==
    \E c \in Clients :
        /\ LogoutDone(c)
        /\ last.client = c /\ last.op = "ring"
        /\ last.arg = <<"granted", "alert">>
        /\ last.lines = <<"ring received">>
        /\ RingDelete(last.id, c) \in ringDeletes


\* C37: the local message view holds only messages of the current session's
\* room: it is empty after a completed logout, and while logged in to room R
\* every message of the view and every seen receipt that was issued refers to
\* a message of R, also before the first snapshot of the new subscription
C37_ViewOfSessionRoom ==
    /\ \A c \in Clients :
           LET cl == client[c] IN
           /\ LogoutDone(c) => cl.messages = <<>>
           /\ cl.login.loggedIn =>
                  \A p \in DOMAIN cl.messages :
                      msgs[cl.messages[p].id].room = cl.login.roomId
    /\ \A w \in seenWrites : msgs[w.id].room = w.room

\* a page logged in to a room shows a message of the room it left
C37_StaleView ==
    \E c \in Clients :
        LET cl == client[c] IN
        /\ cl.login.loggedIn
        /\ cl.unsubscribeMessages.firstSnapshot
        /\ \E p \in DOMAIN cl.messages :
               msgs[cl.messages[p].id].room # cl.login.roomId

\* a seen receipt addressed to the new room names a message of the left room
C37_StaleReceipt ==
    \E w \in seenWrites :
        /\ msgs[w.id].room # w.room
        /\ last.op = "ncp_run"
        /\ w \in last.seen


\* C38: the time a user has seen a message, seenAt[u], is written once: no
\* step changes a seenAt[u] that is set, also when the user's receipt is
\* issued a second time before the first one shows in the page's view
C38_SeenAtWrittenOnce ==
    [][\A i \in DOMAIN msgs : \A u \in Users :
          msgs[i].seenAt[u] # NoTime => msgs'[i].seenAt[u] = msgs[i].seenAt[u]]_vars

\* a receipt of a reader has been applied to a message that already carried
\* the reader's seenAt, at a later time
C38_SecondReceipt ==
    /\ last.op = "seen_apply"
    /\ \E u \in Users :
           /\ u # msgs[last.id].sender
           /\ u \in Range(msgs[last.id].seenBy)
           /\ msgs[last.id].seenAt[u] = clock
           /\ clock > Epoch
           /\ msgs[last.id].createdAt = Epoch


\* C40: a page notifies a ring event at most once over the whole run: a
\* delivery of a ring that appends the alert or its fallback line and the
\* `ring received` line never happens for a ring the page has already
\* notified, whatever the deliveries, the re-subscriptions (logout and login
\* within 5 s) and the outcome of the delete
C40_RingNotifiedOnce ==
    [][\A c \in Clients :
          (last'.op = "ring" /\ last'.client = c /\ last'.lines # <<>>) =>
              last'.id \notin client[c].ringNoticed]_vars

\* the delete of a notified ring was rejected, the page has logged out and in
\* again, and the ring, still not older than 5 s, is in the store
C40_Resubscribed ==
    \E c \in Clients : \E i \in client[c].ringNoticed :
        /\ client[c].login.loggedIn
        /\ i \notin client[c].ringsDelivered
        /\ rings[i].st = "stored"
        /\ RingDelete(i, c) \notin ringDeletes
        /\ clock - rings[i].createdAt <= RING_MAX_AGE_MS

\* --------------------------------------------------------- specifications
\* Each specification runs the handlers of one part of the program, on one
\* page unless it names two; the variables the other parts own stay as they
\* are.  A presence write settles, successfully, before the next event.
Solo == {"c1"}

Quiet == presWrites = {}

\* the reconciler: sessions, sends, snapshots and the watermark
Next ==
    \/ Quiet /\ \E c \in Solo, r \in {"r1", None}, u \in Chatters : Login(c, r, u)
    \/ Quiet /\ \E c \in Solo : Logout(c)
    \/ \E w \in presWrites : PresenceWriteSettle(w, TRUE)
    \/ Quiet /\ \E c \in Solo, t \in Texts : CmdSend(c, t)
    \/ Quiet /\ \E i \in DOMAIN msgs : SendCommit(i)
    \/ Quiet /\ \E c \in Solo : DeliverMessages(c)
    \/ Quiet /\ \E c \in Solo : ClearLocal(c)
    \/ Quiet /\ Tick(Epoch + MaxClock)

Spec == Init /\ [][Next]_vars

\* subscription instances: login, logout, reload with auto-login, receipts
NextSummary ==
    \/ Quiet /\ \E c \in Solo, u \in Chatters : Login(c, "r1", u)
    \/ Quiet /\ \E c \in Solo : Logout(c)
    \/ Quiet /\ \E c \in Solo : Reload(c)
    \/ \E w \in presWrites : PresenceWriteSettle(w, TRUE)
    \/ Quiet /\ \E c \in Solo : CmdSend(c, <<"h">>)
    \/ Quiet /\ \E i \in DOMAIN msgs : SendCommit(i)
    \/ Quiet /\ \E c \in Solo : DeliverMessages(c)
    \/ Quiet /\ \E c \in Solo : NcpRun(c)
    \/ Quiet /\ \E w \in seenWrites : SeenWriteApply(w)

SpecSummary == Init /\ [][NextSummary]_vars

\* sending from the terminal and from the chat input
NextSend ==
    \/ Quiet /\ \E c \in Solo, u \in Chatters : Login(c, "r1", u)
    \/ Quiet /\ \E c \in Solo : Logout(c)
    \/ Quiet /\ \E c \in Solo : Reload(c)
    \/ \E w \in presWrites : PresenceWriteSettle(w, TRUE)
    \/ Quiet /\ \E c \in Solo : NcpRun(c)
    \/ Quiet /\ \E c \in Solo, t \in Texts : CmdSend(c, t)
    \/ Quiet /\ \E c \in Solo, t \in Texts : EditorSend(c, t)
    \/ Quiet /\ \E i \in DOMAIN msgs : SendCommit(i)
    \/ Quiet /\ \E i \in DOMAIN msgs, fb \in BOOLEAN : SendFail(i, fb)
    \/ Quiet /\ Tick(Epoch + MaxClock)

SpecSend == Init /\ [][NextSend]_vars

\* seen receipts and what gates them
NextSeen ==
    \/ Quiet /\ \E c \in Solo, u \in Chatters : Login(c, "r1", u)
    \/ Quiet /\ \E c \in Solo : Logout(c)
    \/ \E w \in presWrites : PresenceWriteSettle(w, TRUE)
    \/ Quiet /\ \E c \in Solo : CmdSend(c, <<"h">>)
    \/ Quiet /\ \E i \in DOMAIN msgs : SendCommit(i)
    \/ Quiet /\ \E c \in Solo : DeliverMessages(c)
    \/ Quiet /\ \E c \in Solo : NcpRun(c)
    \/ Quiet /\ \E c \in Solo : HideChat(c)
    \/ Quiet /\ \E c \in Solo : VisibilityChange(c)
    \/ Quiet /\ \E w \in seenWrites : SeenWriteApply(w)

SpecSeen == Init /\ [][NextSeen]_vars

\* the store under two pages: alice's page c1 and bob's page c2
NextStore ==
    \/ Quiet /\ Login("c1", "r1", "alice")
    \/ Quiet /\ Login("c2", "r1", "bob")
    \/ Quiet /\ Logout("c1")
    \/ \E w \in presWrites : PresenceWriteSettle(w, TRUE)
    \/ Quiet /\ \E c \in Clients : CmdSend(c, <<"h">>)
    \/ Quiet /\ \E i \in DOMAIN msgs : SendCommit(i)
    \/ Quiet /\ \E c \in Solo : DeliverMessages(c)
    \/ Quiet /\ \E c \in Solo : NcpRun(c)
    \/ Quiet /\ \E c \in Solo : ClearLocal(c)
    \/ Quiet /\ \E w \in seenWrites : SeenWriteApply(w)
    \/ Quiet /\ \E w \in seenWrites : SeenWriteFail(w)
    \/ Quiet /\ Tick(Epoch + MaxClock)

SpecStore == Init /\ [][NextStore]_vars

\* synchronization under panic: alice's page receives message and presence
\* snapshots while bob's page sends and changes its presence
NextGate ==
    \/ Quiet /\ Login("c1", "r1", "alice")
    \/ Quiet /\ Login("c2", "r1", "bob")
    \/ \E w \in presWrites : PresenceWriteSettle(w, TRUE)
    \/ Quiet /\ \E c \in Clients : CmdSend(c, <<"h">>)
    \/ Quiet /\ \E i \in DOMAIN msgs : SendCommit(i)
    \/ Quiet /\ \E c \in Solo : DeliverMessages(c)
    \/ Quiet /\ \E c \in Solo : DeliverPresence(c)
    \/ Quiet /\ \E c \in Solo : NcpRun(c)
    \/ Quiet /\ \E c \in Solo : HideChat(c)
    \/ Quiet /\ \E c \in Clients : VisibilityChange(c)
    \/ Quiet /\ \E w \in seenWrites : SeenWriteApply(w)

SpecGate == Init /\ [][NextGate]_vars

\* the idle policy: every page's interval fires when it is due
NextIdle ==
    \/ Quiet /\ \E c \in Solo : Login(c, "r1", "alice")
    \/ \E w \in presWrites : PresenceWriteSettle(w, TRUE)
    \/ Quiet /\ \E c \in Solo : Activity(c)
    \/ Quiet /\ \E c \in Solo : VisibilityChange(c)
    \/ Quiet /\ \E c \in Clients : Poll(c)
    \/ Quiet /\ Tick(Epoch + IdleHorizon)

SpecIdle == Init /\ [][NextIdle]_vars

\* entering panic over the file trees the Explorer can produce
NextPanic ==
    \/ Quiet /\ \E c \in Solo : Login(c, "r1", "alice")
    \/ Quiet /\ \E c \in Solo : Logout(c)
    \/ \E w \in presWrites : PresenceWriteSettle(w, TRUE)
    \/ Quiet /\ \E c \in Solo : NcpRun(c)
    \/ Quiet /\ \E c \in Solo : HideChat(c)
    \/ Quiet /\ \E c \in Solo : Chord(c)
    \/ Quiet /\ \E c \in Solo : \E id \in Range(NodeIds(client[c].files)) : SelectFile(c, id)
    \/ Quiet /\ \E c \in Solo : \E id \in Range(client[c].openTabs) : SelectTab(c, id)
    \/ Quiet /\ \E c \in Solo : \E id \in Range(NodeIds(client[c].files)) : DeleteNode(c, id)

SpecPanic == Init /\ [][NextPanic]_vars

\* rings between two pages of one room, over 7.5 s
NextRing ==
    \/ Quiet /\ Login("c1", "r1", "alice")
    \/ Quiet /\ Login("c2", "r1", "bob")
    \/ \E w \in presWrites : PresenceWriteSettle(w, TRUE)
    \/ Quiet /\ \E c \in Clients : RingSend(c)
    \/ Quiet /\ \E i \in DOMAIN rings : RingCommit(i)
    \/ Quiet /\ \E i \in DOMAIN rings : RingFail(i)
    \/ Quiet /\ \E c \in Solo : \E i \in DOMAIN rings : \E n \in Notifs :
           ObserveRing(c, i, n)
    \/ Quiet /\ \E d \in ringDeletes : \E ok \in BOOLEAN : RingDeleteSettle(d, ok)
    \/ Quiet /\ Elapse(RingStepMs, Epoch + RingSteps * RingStepMs)

SpecRing == Init /\ [][NextRing]_vars

\* presence flapping: the other page goes away and comes back while the
\* first page watches, over 3 s
NextPresence ==
    \/ Quiet /\ Login("c1", "r1", "alice")
    \/ Quiet /\ Login("c2", "r1", "bob")
    \/ Quiet /\ Logout("c1")
    \/ \E w \in presWrites : PresenceWriteSettle(w, TRUE)
    \/ Quiet /\ VisibilityChange("c2")
    \/ Quiet /\ \E c \in Solo : DeliverPresence(c)
    \/ Quiet /\ Elapse(OnlineStepMs, Epoch + OnlineSteps * OnlineStepMs)

SpecPresence == Init /\ [][NextPresence]_vars

\* one page's session: login, visibility, unload, logout, with presence writes
\* that are applied or rejected
NextSession ==
    \/ Quiet /\ \E c \in Solo : \E u \in Chatters : Login(c, "r1", u)
    \/ Quiet /\ \E c \in Solo : Logout(c)
    \/ \E w \in presWrites : \E ok \in BOOLEAN : PresenceWriteSettle(w, ok)
    \/ Quiet /\ \E c \in Solo : VisibilityChange(c)
    \/ Quiet /\ \E c \in Solo : Reload(c)
    \/ Quiet /\ \E c \in Solo : NcpRun(c)
    \/ Quiet /\ \E c \in Solo : HideChat(c)

SpecSession == Init /\ [][NextSession]_vars

\* the chat input of one page: inputs, the debounce timer, Enter, over 2.4 s
NextTyping ==
    \/ Quiet /\ \E c \in Solo : Login(c, "r1", "alice")
    \/ Quiet /\ \E c \in Solo : Logout(c)
    \/ \E w \in presWrites : PresenceWriteSettle(w, TRUE)
    \/ Quiet /\ \E c \in Solo : NcpRun(c)
    \/ Quiet /\ \E c \in Solo : ChatInput(c)
    \/ \E c \in Solo : TypingTimeout(c)
    \/ Quiet /\ \E c \in Solo : EditorSend(c, <<"h">>)
    \/ Quiet /\ \E i \in DOMAIN msgs : SendCommit(i)
    \/ Quiet /\ Elapse(TypingStepMs, Epoch + TypingSteps * TypingStepMs)

SpecTyping == Init /\ [][NextTyping]_vars

\* the transcript of a room with a history: the room holds up to HistoryLen
\* messages sent in earlier sessions, 0 to 62 minutes after the time origin
HistoryOffsets == {0, 30, 60, 61, 62}

Other(u) == CHOOSE v \in Chatters : v # u

HistoryDoc(off, sender, seen) ==
    LET t == Epoch + off * MINUTE_MS IN
    [room |-> "r1", origin |-> None, st |-> "stored", sender |-> sender,
     content |-> IF sender = "alice" THEN <<"h">> ELSE <<QUOTE, "h">>,
     createdAt |-> t,
     seenBy |-> IF seen THEN <<sender, Other(sender)>> ELSE <<sender>>,
     seenAt |-> [u \in Users |-> IF u = sender \/ seen THEN t ELSE NoTime]]

HistoryDocs ==
    {HistoryDoc(off, u, seen) : off \in HistoryOffsets, u \in Chatters, seen \in BOOLEAN}

Histories ==
    {h \in UNION {[1..n -> HistoryDocs] : n \in 0..HistoryLen} :
        \A i \in 1..(Len(h) - 1) : h[i].createdAt < h[i + 1].createdAt}

HistoryNow == Epoch + 62 * MINUTE_MS

InitTranscript ==
    /\ clock = HistoryNow
    /\ msgs \in Histories
    /\ seenWrites = {}
    /\ presence = [i \in Identities |-> NoPresence]
    /\ presWrites = {}
    /\ client = [c \in Clients |->
                    [InitClient EXCEPT !.lastActivity = HistoryNow,
                                       !.nextPoll = HistoryNow + CHECK_MS]]
    /\ last = NoOp
    /\ rings = <<>>
    /\ ringDeletes = {}

NextTranscript ==
    \/ Quiet /\ \E c \in Solo : \E u \in Chatters : Login(c, "r1", u)
    \/ \E w \in presWrites : PresenceWriteSettle(w, TRUE)
    \/ Quiet /\ \E c \in Solo : DeliverMessages(c)
    \/ Quiet /\ \E c \in Solo : CmdSend(c, <<"h">>)
    \/ Quiet /\ \E i \in DOMAIN msgs : SendCommit(i)
    \/ Quiet /\ \E c \in Solo : NcpRun(c)
    \/ Quiet /\ \E w \in seenWrites : SeenWriteApply(w)

SpecTranscript == InitTranscript /\ [][NextTranscript]_vars

\* subscriptions over sessions of one page: login as either user, logout,
\* reload, and deliveries of the three streams
NextSubscribe ==
    \/ Quiet /\ \E c \in Solo : \E u \in Chatters : Login(c, "r1", u)
    \/ Quiet /\ \E c \in Solo : Logout(c)
    \/ \E w \in presWrites : PresenceWriteSettle(w, TRUE)
    \/ Quiet /\ \E c \in Solo : Reload(c)
    \/ Quiet /\ \E c \in Solo : DeliverMessages(c)
    \/ Quiet /\ \E c \in Solo : DeliverPresence(c)
    \/ Quiet /\ \E c \in Solo : RingSend(c)
    \/ Quiet /\ \E i \in DOMAIN rings : RingCommit(i)
    \/ Quiet /\ \E c \in Solo : \E i \in DOMAIN rings : ObserveRing(c, i, "granted")

SpecSubscribe == Init /\ [][NextSubscribe]_vars

\* watermarks over sessions of one page under two identities that differ in
\* where the underscore falls
NextWatermark ==
    \/ Quiet /\ \E c \in Solo :
           \E i \in {<<"r1", "x_alice">>, <<"r1_x", "alice">>} :
               Login(c, i[1], i[2])
    \/ Quiet /\ \E c \in Solo : Logout(c)
    \/ \E w \in presWrites : PresenceWriteSettle(w, TRUE)
    \/ Quiet /\ \E c \in Solo : CmdSend(c, <<"h">>)
    \/ Quiet /\ \E i \in DOMAIN msgs : SendCommit(i)
    \/ Quiet /\ \E c \in Solo : DeliverMessages(c)
    \/ Quiet /\ \E c \in Solo : ClearLocal(c)
    \/ Quiet /\ \E c \in Solo : HideChat(c)
    \/ Quiet /\ Tick(Epoch + MaxClock)

SpecWatermark == Init /\ [][NextWatermark]_vars

\* two pages read a message a third user sent to the room earlier
InitReceipts ==
    /\ clock = Epoch
    /\ msgs = <<HistoryDoc(0, "x_alice", FALSE)>>
    /\ seenWrites = {}
    /\ presence = [i \in Identities |-> NoPresence]
    /\ presWrites = {}
    /\ client = [c \in Clients |-> InitClient]
    /\ last = NoOp
    /\ rings = <<>>
    /\ ringDeletes = {}

NextReceipts ==
    \/ Quiet /\ Login("c1", "r1", "alice")
    \/ Quiet /\ Login("c2", "r1", "bob")
    \/ \E w \in presWrites : PresenceWriteSettle(w, TRUE)
    \/ Quiet /\ \E c \in Clients : NcpRun(c)
    \/ Quiet /\ \E c \in Clients : DeliverMessages(c)
    \/ Quiet /\ \E c \in Clients : HideChat(c)
    \/ Quiet /\ \E w \in seenWrites : SeenWriteApply(w)
    \/ Quiet /\ \E w \in seenWrites : SeenWriteFail(w)

SpecReceipts == InitReceipts /\ [][NextReceipts]_vars

\* resume and the two hide triggers in every state of a page
NextResume ==
    \/ Quiet /\ \E c \in Solo : Login(c, "r1", "alice")
    \/ Quiet /\ \E c \in Solo : Logout(c)
    \/ \E w \in presWrites : PresenceWriteSettle(w, TRUE)
    \/ Quiet /\ \E c \in Solo : NcpRun(c)
    \/ Quiet /\ \E c \in Solo : HideChat(c)
    \/ Quiet /\ \E c \in Solo : Chord(c)
    \/ Quiet /\ \E c \in Solo : Activity(c)
    \/ Quiet /\ \E c \in Solo : VisibilityChange(c)
    \/ Quiet /\ \E c \in Solo : DeliverMessages(c)
    \/ Quiet /\ Tick(Epoch + MaxClock)

SpecResume == Init /\ [][NextResume]_vars

\* commands typed with and without a session on one page
NextRefuse ==
    \/ Quiet /\ \E c \in Solo : \E r \in {"r1", None} : Login(c, r, "alice")
    \/ Quiet /\ \E c \in Solo : Logout(c)
    \/ \E w \in presWrites : PresenceWriteSettle(w, TRUE)
    \/ Quiet /\ \E c \in Solo : CmdSend(c, <<"h">>)
    \/ Quiet /\ \E i \in DOMAIN msgs : SendCommit(i)
    \/ Quiet /\ \E c \in Solo : DeliverMessages(c)
    \/ Quiet /\ \E c \in Solo : NcpRun(c)
    \/ Quiet /\ \E c \in Solo : HideChat(c)
    \/ Quiet /\ \E c \in Solo : ClearLocal(c)
    \/ Quiet /\ \E c \in Solo : RingSend(c)

SpecRefuse == Init /\ [][NextRefuse]_vars

\* logout of one page while the tab is hidden or shown during its awaits
NextOffline ==
    \/ Quiet /\ \E c \in Solo : Login(c, "r1", "alice")
    \/ Quiet /\ \E c \in Solo : Logout(c)
    \/ \E w \in presWrites : PresenceWriteSettle(w, TRUE)
    \/ \E c \in Solo : VisibilityChange(c)
    \/ Quiet /\ \E c \in Solo : NcpRun(c)
    \/ Quiet /\ \E c \in Solo : DeliverPresence(c)

SpecOffline == Init /\ [][NextOffline]_vars

\* typing in the chat input while the tab is hidden and shown, over 2.4 s
NextOverlay ==
    \/ Quiet /\ \E c \in Solo : Login(c, "r1", "alice")
    \/ Quiet /\ \E c \in Solo : Logout(c)
    \/ \E w \in presWrites : PresenceWriteSettle(w, TRUE)
    \/ Quiet /\ \E c \in Solo : NcpRun(c)
    \/ Quiet /\ \E c \in Solo : ChatInput(c)
    \/ \E c \in Solo : TypingTimeout(c)
    \/ Quiet /\ \E c \in Solo : VisibilityChange(c)
    \/ Quiet /\ Elapse(TypingStepMs, Epoch + TypingSteps * TypingStepMs)

SpecOverlay == Init /\ [][NextOverlay]_vars

\* messages whose text holds a marker of the chat zone
MarkerTexts == {<<"h">>, <<"h", CHAT_END>>, <<"h", CHAT_START>>}

\* the chat file of every page is within the bound up to which its growth is
\* followed
Small == \A c \in Clients : Len(chatContent(client[c].files)) <= MaxContent

\* the chat file of one page while messages with and without marker texts
\* arrive
NextProject ==
    \/ Quiet /\ \E c \in Solo : Login(c, "r1", "alice")
    \/ \E w \in presWrites : PresenceWriteSettle(w, TRUE)
    \/ Quiet /\ Small /\ \E c \in Solo : \E text \in MarkerTexts : CmdSend(c, text)
    \/ Quiet /\ Small /\ \E i \in DOMAIN msgs : SendCommit(i)
    \/ Quiet /\ Small /\ \E c \in Solo : DeliverMessages(c)
    \/ Quiet /\ Small /\ \E c \in Solo : ProjectionRerun(c)

SpecProject == Init /\ [][NextProject]_vars

\* a page leaves the room while the other page stays and rings
NextLeft ==
    \/ Quiet /\ Login("c1", "r1", "alice")
    \/ Quiet /\ Login("c2", "r1", "bob")
    \/ Quiet /\ Logout("c1")
    \/ \E w \in presWrites : PresenceWriteSettle(w, TRUE)
    \/ Quiet /\ RingSend("c2")
    \/ Quiet /\ \E i \in DOMAIN rings : RingCommit(i)
    \/ Quiet /\ \E i \in DOMAIN rings : \E n \in Notifs : ObserveRing("c1", i, n)
    \/ Quiet /\ \E d \in ringDeletes : RingDeleteSettle(d, TRUE)
    \/ Quiet /\ DeliverMessages("c1")
    \/ Quiet /\ DeliverPresence("c1")

SpecLeft == Init /\ [][NextLeft]_vars

\* one page moves from room to room while the other page writes in the first
NextRooms ==
    \/ Quiet /\ \E r \in Rooms : Login("c1", r, "alice")
    \/ Quiet /\ Login("c2", "r1", "bob")
    \/ Quiet /\ Logout("c1")
    \/ \E w \in presWrites : PresenceWriteSettle(w, TRUE)
    \/ Quiet /\ CmdSend("c2", <<"h">>)
    \/ Quiet /\ \E i \in DOMAIN msgs : SendCommit(i)
    \/ Quiet /\ DeliverMessages("c1")
    \/ Quiet /\ NcpRun("c1")
    \/ Quiet /\ \E w \in seenWrites : SeenWriteApply(w)
    \/ Quiet /\ \E w \in seenWrites : SeenWriteFail(w)

SpecRooms == Init /\ [][NextRooms]_vars

\* a reader whose page is hidden and shown again while its view is stale,
\* over 2.5 s
NextStamp ==
    \/ Quiet /\ Login("c1", "r1", "alice")
    \/ Quiet /\ Login("c2", "r1", "bob")
    \/ \E w \in presWrites : PresenceWriteSettle(w, TRUE)
    \/ Quiet /\ CmdSend("c2", <<"h">>)
    \/ Quiet /\ \E i \in DOMAIN msgs : SendCommit(i)
    \/ Quiet /\ DeliverMessages("c1")
    \/ Quiet /\ NcpRun("c1")
    \/ Quiet /\ VisibilityChange("c1")
    \/ Quiet /\ \E w \in seenWrites : SeenWriteApply(w)
    \/ Quiet /\ Elapse(RingStepMs, Epoch + RingStepMs)

SpecStamp == Init /\ [][NextStamp]_vars

\* a page that leaves and enters the room again while a ring is young, over
\* 7.5 s
NextAgain ==
    \/ Quiet /\ Login("c1", "r1", "alice")
    \/ Quiet /\ Login("c2", "r1", "bob")
    \/ Quiet /\ Logout("c1")
    \/ \E w \in presWrites : PresenceWriteSettle(w, TRUE)
    \/ Quiet /\ RingSend("c2")
    \/ Quiet /\ \E i \in DOMAIN rings : RingCommit(i)
    \/ Quiet /\ \E i \in DOMAIN rings : \E n \in {"granted", "denied"} :
           ObserveRing("c1", i, n)
    \/ Quiet /\ \E d \in ringDeletes : \E ok \in BOOLEAN : RingDeleteSettle(d, ok)
    \/ Quiet /\ Elapse(RingStepMs, Epoch + RingSteps * RingStepMs)

SpecAgain == Init /\ [][NextAgain]_vars

====
